---- MODULE Spec2Model ----
(***************************************************************************)
(* tcr: unified search over a two-panel diff review UI.                    *)
(*                                                                         *)
(* The module models the search controller (ui/search), the file-list and  *)
(* diff panels (ui/panels) and the application's Update loop (ui/app).     *)
(* Strings are sequences of one-character strings; Go slice indices are    *)
(* kept 0-based as data; a Go slice that may be nil is a record            *)
(* [nil, v] so that "nil" and "empty, non-nil" stay distinct.              *)
(***************************************************************************)
EXTENDS Integers, Sequences, FiniteSets, Bags, TLC

VARIABLES
    fzfInstalled,   \* environment: exec.LookPath("fzf") succeeds
    repo,           \* environment: the VCS (ChangedFiles, Diff)
    searchCtrl,     \* search.Controller
    filesPanel,     \* panels.FilesPanel
    diffPanel,      \* panels.DiffPanel (with its SearchState)
    diffCache,      \* App.diffCache
    modalOpen,      \* App.modalOpen
    pending,        \* commands in flight (their messages not yet delivered)
    running,        \* the program has not quit
    fixture,        \* the inputs a harness fixes, or the record of a search session
    call            \* the last operation applied, with its arguments and result

vars == <<fzfInstalled, repo, searchCtrl, filesPanel, diffPanel, diffCache,
          modalOpen, pending, running, fixture, call>>

-----------------------------------------------------------------------------
(* Bounds of the model.                                                    *)

MaxQueryLen == 2
MaxFiles == 2
MaxLines == 2
MaxLineLen == 1
MaxInputLen == 1
AppMaxQueryLen == 1
MaxPending == 2
TermHeight == 4
MaxCursorLine == 2
\* Match lists given to SetSearchMatches are over 0..MaxMatches-1.
MaxMatches == 3
\* The files panel driven on its own holds up to MaxPanelFiles files.
MaxPanelFiles == 3

(* The characters a query or a diff line is made of.  "q" and "/" are also *)
(* the quit and search keys of normal mode, "0" is the decimal form of     *)
(* line index 0.                                                           *)
Runes == {"q", "0", "/"}

NL == "\n"

Paths == 1..MaxFiles

-----------------------------------------------------------------------------
(* Go values.                                                              *)

NilSlice == [nil |-> TRUE, v |-> <<>>]

Slice(s) == [nil |-> FALSE, v |-> s]

\* append(x, e): appending to a nil slice yields a non-nil one.
Append0(x, e) == [nil |-> FALSE, v |-> Append(x.v, e)]

SeqsUpTo(S, n) == UNION {[1..k -> S] : k \in 0..n}

Range(s) == {s[i] : i \in 1..Len(s)}

IsInjective(s) == \A i, j \in 1..Len(s) : i # j => s[i] # s[j]

\* All orderings of the elements of a duplicate-free sequence.
Perms(s) ==
    {p \in [1..Len(s) -> Range(s)] : Len(s) = 0 \/ Range(p) = Range(s)}

-----------------------------------------------------------------------------
(* strings and fmt                                                         *)

DigitChar(d) == <<"0", "1", "2", "3", "4", "5", "6", "7", "8", "9">>[d + 1]

IsDigit(c) == c \in {"0", "1", "2", "3", "4", "5", "6", "7", "8", "9"}

DigitVal(c) == CHOOSE d \in 0..9 : DigitChar(d) = c

\* fmt's %d of a non-negative int.
RECURSIVE FormatInt(_)
FormatInt(n) ==
    IF n < 10 THEN <<DigitChar(n)>>
    ELSE FormatInt(n \div 10) \o <<DigitChar(n % 10)>>

\* fmt.Sscanf(s, "%d", &n) on an unsigned numeral: the leading digits of s;
\* fails when s does not start with a digit.
RECURSIVE ScanDigits(_, _)
ScanDigits(s, acc) ==
    IF Len(s) = 0 \/ ~IsDigit(Head(s)) THEN acc
    ELSE ScanDigits(Tail(s), acc * 10 + DigitVal(Head(s)))

Sscanf(s) ==
    IF Len(s) = 0 \/ ~IsDigit(Head(s)) THEN [ok |-> FALSE, n |-> 0]
    ELSE [ok |-> TRUE, n |-> ScanDigits(s, 0)]

\* strings.Index(s, c) for a one-character c: 0-based, -1 when absent.
StringsIndex(s, c) ==
    IF \E i \in 1..Len(s) : s[i] = c
    THEN (CHOOSE i \in 1..Len(s) : s[i] = c /\ \A j \in 1..(i - 1) : s[j] # c) - 1
    ELSE -1

\* strings.Contains(s, sub)
StringsContains(s, sub) ==
    \E i \in 0..(Len(s) - Len(sub)) : SubSeq(s, i + 1, i + Len(sub)) = sub

\* strings.Split(s, "\n"): always at least one element ("" gives [""]).
RECURSIVE SplitFrom(_, _)
SplitFrom(s, cur) ==
    IF Len(s) = 0 THEN <<cur>>
    ELSE IF Head(s) = NL THEN <<cur>> \o SplitFrom(Tail(s), <<>>)
    ELSE SplitFrom(Tail(s), Append(cur, Head(s)))

StringsSplit(s) == SplitFrom(s, <<>>)

\* strings.Join(lines, "\n")
RECURSIVE StringsJoin(_)
StringsJoin(lines) ==
    IF Len(lines) = 0 THEN <<>>
    ELSE IF Len(lines) = 1 THEN lines[1]
    ELSE lines[1] \o <<NL>> \o StringsJoin(Tail(lines))

IsSpace(c) == c \in {NL, " "}

RECURSIVE TrimLeft(_)
TrimLeft(s) ==
    IF Len(s) > 0 /\ IsSpace(Head(s)) THEN TrimLeft(Tail(s)) ELSE s

RECURSIVE TrimRight(_)
TrimRight(s) ==
    IF Len(s) > 0 /\ IsSpace(s[Len(s)]) THEN TrimRight(SubSeq(s, 1, Len(s) - 1))
    ELSE s

\* strings.TrimSpace
StringsTrimSpace(s) == TrimRight(TrimLeft(s))

\* sort.Ints: insertion into an ascending sequence, duplicates kept.
RECURSIVE InsertSorted(_, _)
InsertSorted(s, x) ==
    IF Len(s) = 0 THEN <<x>>
    ELSE IF x <= Head(s) THEN <<x>> \o s
    ELSE <<Head(s)>> \o InsertSorted(Tail(s), x)

RECURSIVE SortInts(_)
SortInts(s) ==
    IF Len(s) = 0 THEN <<>>
    ELSE InsertSorted(SortInts(Tail(s)), Head(s))

-----------------------------------------------------------------------------
(* The external matcher: fzf --filter query --exact.                       *)

\* The lines of stdin as fzf reads them: split at newlines, a trailing
\* newline ending the last line and starting no further one.
FzfReadLines(stdin) ==
    LET ls == StringsSplit(stdin)
    IN  IF Len(ls) > 0 /\ ls[Len(ls)] = <<>> THEN SubSeq(ls, 1, Len(ls) - 1)
        ELSE ls

\* The input lines fzf reports for a query (an exact, i.e. substring,
\* match), here in input order; fzf prints them ordered by score.
FzfHits(query, stdin) ==
    LET ls == FzfReadLines(stdin)
    IN  SelectSeq(ls, LAMBDA l : StringsContains(l, query))

\* stdout for a run that prints the hit lines in the order ord.
FzfStdout(ord) ==
    IF Len(ord) = 0 THEN <<>> ELSE StringsJoin(ord) \o <<NL>>

-----------------------------------------------------------------------------
(* bubbles/textinput, as the controller uses it: a value and a focus flag, *)
(* the cursor kept at the end of the value.                                *)

CharLimit == 100

NewInput == [value |-> <<>>, focus |-> FALSE]

\* textinput.Model.Update for a key: ignored without focus; a rune is
\* appended up to CharLimit, backspace deletes the last rune, any other key
\* leaves the value alone.
InputUpdate(in, key) ==
    IF ~in.focus THEN in
    ELSE IF key \in Runes THEN
        IF Len(in.value) < CharLimit
        THEN [in EXCEPT !.value = Append(in.value, key)]
        ELSE in
    ELSE IF key = "backspace" /\ Len(in.value) > 0 THEN
        [in EXCEPT !.value = SubSeq(in.value, 1, Len(in.value) - 1)]
    ELSE in

-----------------------------------------------------------------------------
(* search.Controller                                                       *)

NewController ==
    [active |-> FALSE, input |-> NewInput, query |-> <<>>,
     filteredIdxs |-> NilSlice, noMatches |-> FALSE, fzfError |-> ""]

Activate(c) ==
    [c EXCEPT !.active = TRUE, !.query = <<>>, !.filteredIdxs = NilSlice,
              !.noMatches = FALSE, !.fzfError = "",
              !.input = [value |-> <<>>, focus |-> TRUE]]

\* Deactivate that leaves the query in place.
DeactivateKeepsQuery(c) ==
    [c EXCEPT !.active = FALSE, !.filteredIdxs = NilSlice,
              !.noMatches = FALSE,
              !.input = [value |-> <<>>, focus |-> FALSE]]

\* Deactivate that forgets to clear the noMatches flag.
DeactivateKeepsFlag(c) ==
    [c EXCEPT !.active = FALSE, !.query = <<>>, !.filteredIdxs = NilSlice,
              !.input = [value |-> <<>>, focus |-> FALSE]]

\* Deactivate that toggles the mode instead of leaving it.
DeactivateToggles(c) ==
    [c EXCEPT !.active = ~c.active, !.query = <<>>,
              !.filteredIdxs = NilSlice, !.noMatches = FALSE,
              !.input = [value |-> <<>>, focus |-> FALSE]]

Deactivate(c) ==
    [c EXCEPT !.active = FALSE, !.query = <<>>, !.filteredIdxs = NilSlice,
              !.noMatches = FALSE,
              !.input = [value |-> <<>>, focus |-> FALSE]]

UpdateInput(c, key) ==
    LET in == InputUpdate(c.input, key)
    IN  [c EXCEPT !.input = in, !.query = in.value]

\* Status that looks at the noMatches flag before the matcher error.
StatusFlagFirst(c) ==
    IF c.noMatches THEN "no matches"
    ELSE IF c.fzfError # "" THEN c.fzfError
    ELSE IF Len(c.filteredIdxs.v) > 0 THEN
        IF Len(c.filteredIdxs.v) = 1 THEN "1 file"
        ELSE ToString(Len(c.filteredIdxs.v)) \o " files"
    ELSE ""

Status(c) ==
    IF c.fzfError # "" THEN c.fzfError
    ELSE IF c.noMatches THEN "no matches"
    ELSE IF Len(c.filteredIdxs.v) > 0 THEN
        IF Len(c.filteredIdxs.v) = 1 THEN "1 file"
        ELSE ToString(Len(c.filteredIdxs.v)) \o " files"
    ELSE ""

\* exec.LookPath("fzf")
LookPathFzf == fzfInstalled

\* stdout.Len() > 0 for fzf run on the diff text.
diffContainsMatch(query, diffContent) ==
    Len(FzfStdout(FzfHits(query, diffContent))) > 0

\* The loop of SearchAllFiles collecting the indices last file first.
RECURSIVE MatchingIdxsReversed(_, _, _, _)
MatchingIdxsReversed(query, files, diffs, n) ==
    IF n = 0 THEN NilSlice
    ELSE LET acc == MatchingIdxsReversed(query, files, diffs, n - 1)
             filePath == files[n]
             ok == filePath \in DOMAIN diffs
         IN  IF ~ok \/ diffs[filePath] = <<>> THEN acc
             ELSE IF diffContainsMatch(query, diffs[filePath])
             THEN Slice(<<n - 1>> \o acc.v)
             ELSE acc

\* The loop of SearchAllFiles over files[0..n-1]: the 0-based indices of
\* the files with a cached, non-empty diff that contains a match.
RECURSIVE MatchingIdxs(_, _, _, _)
MatchingIdxs(query, files, diffs, n) ==
    IF n = 0 THEN NilSlice
    ELSE LET acc == MatchingIdxs(query, files, diffs, n - 1)
             filePath == files[n]
             ok == filePath \in DOMAIN diffs
         IN  IF ~ok \/ diffs[filePath] = <<>> THEN acc
             ELSE IF diffContainsMatch(query, diffs[filePath])
             THEN Append0(acc, n - 1)
             ELSE acc

\* SearchAllFiles that only records an empty query and keeps the old result.
SearchAllFilesKeepsOnEmpty(c, query, files, diffs) ==
    LET c1 == [c EXCEPT !.query = query, !.fzfError = ""]
    IN  IF query = <<>> THEN
            c1
        ELSE IF ~LookPathFzf THEN
            [c1 EXCEPT !.fzfError = "fzf not found",
                       !.filteredIdxs = NilSlice, !.noMatches = TRUE]
        ELSE LET matchingIdxs == MatchingIdxs(query, files, diffs, Len(files))
             IN  IF Len(matchingIdxs.v) = 0
                 THEN [c1 EXCEPT !.filteredIdxs = NilSlice, !.noMatches = TRUE]
                 ELSE [c1 EXCEPT !.filteredIdxs = matchingIdxs,
                                 !.noMatches = FALSE]

\* SearchAllFiles that does not raise the flag when no file matches.
SearchAllFilesNoFlag(c, query, files, diffs) ==
    LET c1 == [c EXCEPT !.query = query, !.fzfError = ""]
    IN  IF query = <<>> THEN
            [c1 EXCEPT !.filteredIdxs = NilSlice, !.noMatches = FALSE]
        ELSE IF ~LookPathFzf THEN
            [c1 EXCEPT !.fzfError = "fzf not found",
                       !.filteredIdxs = NilSlice, !.noMatches = TRUE]
        ELSE LET matchingIdxs == MatchingIdxs(query, files, diffs, Len(files))
             IN  IF Len(matchingIdxs.v) = 0
                 THEN [c1 EXCEPT !.filteredIdxs = NilSlice, !.noMatches = FALSE]
                 ELSE [c1 EXCEPT !.filteredIdxs = matchingIdxs,
                                 !.noMatches = FALSE]

\* SearchAllFiles that stores an empty filter when no file matches.
SearchAllFilesEmptyFilter(c, query, files, diffs) ==
    LET c1 == [c EXCEPT !.query = query, !.fzfError = ""]
    IN  IF query = <<>> THEN
            [c1 EXCEPT !.filteredIdxs = NilSlice, !.noMatches = FALSE]
        ELSE IF ~LookPathFzf THEN
            [c1 EXCEPT !.fzfError = "fzf not found",
                       !.filteredIdxs = NilSlice, !.noMatches = TRUE]
        ELSE LET matchingIdxs == MatchingIdxs(query, files, diffs, Len(files))
             IN  IF Len(matchingIdxs.v) = 0
                 THEN [c1 EXCEPT !.filteredIdxs = Slice(<<>>), !.noMatches = TRUE]
                 ELSE [c1 EXCEPT !.filteredIdxs = matchingIdxs,
                                 !.noMatches = FALSE]

\* SearchAllFiles that reports a missing matcher as plain "no matches".
SearchAllFilesNoLookPath(c, query, files, diffs) ==
    LET c1 == [c EXCEPT !.query = query, !.fzfError = ""]
    IN  IF query = <<>> THEN
            [c1 EXCEPT !.filteredIdxs = NilSlice, !.noMatches = FALSE]
        ELSE IF ~LookPathFzf THEN
            [c1 EXCEPT !.filteredIdxs = NilSlice, !.noMatches = TRUE]
        ELSE LET matchingIdxs == MatchingIdxs(query, files, diffs, Len(files))
             IN  IF Len(matchingIdxs.v) = 0
                 THEN [c1 EXCEPT !.filteredIdxs = NilSlice, !.noMatches = TRUE]
                 ELSE [c1 EXCEPT !.filteredIdxs = matchingIdxs,
                                 !.noMatches = FALSE]

SearchAllFiles(c, query, files, diffs) ==
    LET c1 == [c EXCEPT !.query = query, !.fzfError = ""]
    IN  IF query = <<>> THEN
            [c1 EXCEPT !.filteredIdxs = NilSlice, !.noMatches = FALSE]
        ELSE IF ~LookPathFzf THEN
            [c1 EXCEPT !.fzfError = "fzf not found",
                       !.filteredIdxs = NilSlice, !.noMatches = TRUE]
        ELSE LET matchingIdxs == MatchingIdxs(query, files, diffs, Len(files))
             IN  IF Len(matchingIdxs.v) = 0
                 THEN [c1 EXCEPT !.filteredIdxs = NilSlice, !.noMatches = TRUE]
                 ELSE [c1 EXCEPT !.filteredIdxs = matchingIdxs,
                                 !.noMatches = FALSE]

\* The text SearchInDiff pipes to fzf: "<i>:<line>\n" for every line.
RECURSIVE NumberedInput(_, _)
NumberedInput(lines, n) ==
    IF n = 0 THEN <<>>
    ELSE NumberedInput(lines, n - 1)
         \o FormatInt(n - 1) \o <<":">> \o lines[n] \o <<NL>>

\* The parsing loop of SearchInDiff over the lines of fzf's output.
RECURSIVE ParseMatches(_)
ParseMatches(outLines) ==
    IF Len(outLines) = 0 THEN NilSlice
    ELSE LET line == outLines[Len(outLines)]
             acc == ParseMatches(SubSeq(outLines, 1, Len(outLines) - 1))
             idx == StringsIndex(line, ":")
             num == Sscanf(SubSeq(line, 1, idx))
         IN  IF line = <<>> THEN acc
             ELSE IF idx > 0 /\ num.ok THEN Append0(acc, num.n)
             ELSE acc

\* The orders in which fzf may print its hits for SearchInDiff(query, lines).
FzfOrders(query, lines) ==
    Perms(FzfHits(query, NumberedInput(lines, Len(lines))))

\* SearchInDiff that returns the indices in the order fzf printed them.
SearchInDiffUnsorted(query, lines, ord) ==
    IF query = <<>> \/ Len(lines) = 0 THEN [matches |-> NilSlice, err |-> ""]
    ELSE IF ~LookPathFzf THEN [matches |-> NilSlice, err |-> "fzf not found"]
    ELSE LET output == FzfStdout(ord)
         IN  IF output = <<>> THEN [matches |-> NilSlice, err |-> ""]
             ELSE [matches |-> ParseMatches(StringsSplit(StringsTrimSpace(output))),
                   err |-> ""]

\* SearchInDiff that looks for the matcher before looking at its arguments.
SearchInDiffLookPathFirst(query, lines, ord) ==
    IF ~LookPathFzf THEN [matches |-> NilSlice, err |-> "fzf not found"]
    ELSE IF query = <<>> \/ Len(lines) = 0
    THEN [matches |-> NilSlice, err |-> ""]
    ELSE LET output == FzfStdout(ord)
         IN  IF output = <<>> THEN [matches |-> NilSlice, err |-> ""]
             ELSE LET parsed == ParseMatches(StringsSplit(StringsTrimSpace(output)))
                  IN  [matches |-> [parsed EXCEPT !.v = SortInts(parsed.v)],
                       err |-> ""]

\* SearchInDiff(query, lines) when fzf prints its hits in the order ord
\* (ord in FzfOrders(query, lines)): the pair (matches, err).
SearchInDiff(query, lines, ord) ==
    IF query = <<>> \/ Len(lines) = 0 THEN [matches |-> NilSlice, err |-> ""]
    ELSE IF ~LookPathFzf THEN [matches |-> NilSlice, err |-> "fzf not found"]
    ELSE LET output == FzfStdout(ord)
         IN  IF output = <<>> THEN [matches |-> NilSlice, err |-> ""]
             ELSE LET parsed == ParseMatches(StringsSplit(StringsTrimSpace(output)))
                  IN  [matches |-> [parsed EXCEPT !.v = SortInts(parsed.v)],
                       err |-> ""]

-----------------------------------------------------------------------------
(* panels.BasePanel cursor steps                                           *)

CursorUp(cursor, itemCount) == IF cursor > 0 THEN cursor - 1 ELSE cursor

CursorDown(cursor, itemCount) ==
    IF cursor < itemCount - 1 THEN cursor + 1 ELSE cursor

-----------------------------------------------------------------------------
(* panels.FilesPanel: files, filteredIdxs and the cursor (a file index).   *)

FileChange(path) == [Path |-> path, Status |-> "M"]

NewFilesPanel == [files |-> <<>>, filteredIdxs |-> NilSlice, cursor |-> 0]

\* SetFiles that keeps the filter of the previous list.
SetFilesKeepsFilter(p, files) == [p EXCEPT !.files = files, !.cursor = 0]

SetFiles(p, files) ==
    [p EXCEPT !.files = files, !.filteredIdxs = NilSlice, !.cursor = 0]

\* SetFilteredIndices that never moves the cursor.
SetFilteredIndicesKeepsCursor(p, indices) ==
    [p EXCEPT !.filteredIdxs = indices]

\* SetFilteredIndices that always moves the cursor to the first entry.
SetFilteredIndicesSnaps(p, indices) ==
    [p EXCEPT !.filteredIdxs = indices,
              !.cursor = IF Len(indices.v) > 0 THEN indices.v[1] ELSE p.cursor]

SetFilteredIndices(p, indices) ==
    LET found == \E k \in 1..Len(indices.v) : indices.v[k] = p.cursor
    IN  [p EXCEPT !.filteredIdxs = indices,
                  !.cursor = IF Len(indices.v) > 0 /\ ~found
                             THEN indices.v[1] ELSE p.cursor]

ClearFilter(p) == [p EXCEPT !.filteredIdxs = NilSlice]

IsFiltered(p) == ~p.filteredIdxs.nil

displayFiles(p) ==
    IF p.filteredIdxs.nil THEN p.files
    ELSE LET valid == SelectSeq(p.filteredIdxs.v,
                                LAMBDA idx : idx >= 0 /\ idx < Len(p.files))
         IN  [k \in 1..Len(valid) |-> p.files[valid[k] + 1]]

displayIndexToFileIndex(p, displayIdx) ==
    IF p.filteredIdxs.nil THEN displayIdx
    ELSE IF displayIdx >= 0 /\ displayIdx < Len(p.filteredIdxs.v)
    THEN p.filteredIdxs.v[displayIdx + 1]
    ELSE -1

\* fileIndexToDisplayIndex that ignores the filter.
fileIndexToDisplayIndexIdentity(p, fileIdx) == fileIdx

fileIndexToDisplayIndex(p, fileIdx) ==
    IF p.filteredIdxs.nil THEN fileIdx
    ELSE IF \E k \in 1..Len(p.filteredIdxs.v) : p.filteredIdxs.v[k] = fileIdx
    THEN (CHOOSE k \in 1..Len(p.filteredIdxs.v) :
              /\ p.filteredIdxs.v[k] = fileIdx
              /\ \A j \in 1..(k - 1) : p.filteredIdxs.v[j] # fileIdx) - 1
    ELSE -1

cursorUpFiltered(p) ==
    IF p.filteredIdxs.nil
    THEN [p EXCEPT !.cursor = CursorUp(p.cursor, Len(p.files))]
    ELSE LET displayIdx == fileIndexToDisplayIndex(p, p.cursor)
         IN  IF displayIdx > 0
             THEN [p EXCEPT !.cursor = p.filteredIdxs.v[displayIdx]]
             ELSE p

\* cursorDownFiltered that steps to the next file whatever the filter.
cursorDownUnfiltered(p) ==
    [p EXCEPT !.cursor = CursorDown(p.cursor, Len(p.files))]

cursorDownFiltered(p) ==
    IF p.filteredIdxs.nil
    THEN [p EXCEPT !.cursor = CursorDown(p.cursor, Len(p.files))]
    ELSE LET displayIdx == fileIndexToDisplayIndex(p, p.cursor)
         IN  IF displayIdx >= 0 /\ displayIdx < Len(p.filteredIdxs.v) - 1
             THEN [p EXCEPT !.cursor = p.filteredIdxs.v[displayIdx + 2]]
             ELSE p

\* SelectedFile() != nil
HasSelectedFile(p) == p.cursor >= 0 /\ p.cursor < Len(p.files)

SelectedFile(p) == p.files[p.cursor + 1]

Count(p) ==
    IF ~p.filteredIdxs.nil THEN Len(p.filteredIdxs.v) ELSE Len(p.files)

TotalCount(p) == Len(p.files)

FilePaths(p) == [i \in 1..Len(p.files) |-> p.files[i].Path]

\* FilesPanel.Update for a key: the panel afterwards and the commands it
\* returns (a FileSelectedMsg when the cursor moved onto a file).
FilesPanelUpdate(p, key) ==
    LET q == IF key = "up" THEN cursorUpFiltered(p)
             ELSE IF key = "down" THEN cursorDownFiltered(p)
             ELSE p
    IN  [panel |-> q,
         cmds |-> IF q.cursor # p.cursor /\ HasSelectedFile(q)
                  THEN <<[type |-> "FileSelectedMsg", path |-> SelectedFile(q).Path]>>
                  ELSE <<>>]

-----------------------------------------------------------------------------
(* panels.SearchState: the diff panel's match list and current match.      *)

NewSearchState ==
    [active |-> FALSE, matches |-> NilSlice, matchSet |-> {},
     currentMatch |-> -1, input |-> NewInput, fzfError |-> ""]

Reset(s) ==
    [s EXCEPT !.active = FALSE, !.matches = NilSlice, !.matchSet = {},
              !.currentMatch = -1, !.input.value = <<>>, !.fzfError = ""]

HasMatches(s) == Len(s.matches.v) > 0

CurrentMatchLine(s) ==
    IF s.currentMatch >= 0 /\ s.currentMatch < Len(s.matches.v)
    THEN s.matches.v[s.currentMatch + 1]
    ELSE -1

\* NextMatch that steps past the last match instead of wrapping.
NextMatchNoWrap(s) ==
    IF Len(s.matches.v) = 0 THEN s
    ELSE [s EXCEPT !.currentMatch = s.currentMatch + 1]

NextMatch(s) ==
    IF Len(s.matches.v) = 0 THEN s
    ELSE [s EXCEPT !.currentMatch = (s.currentMatch + 1) % Len(s.matches.v)]

\* PrevMatch that steps below the first match instead of wrapping.
PrevMatchNoWrap(s) ==
    IF Len(s.matches.v) = 0 THEN s
    ELSE [s EXCEPT !.currentMatch = s.currentMatch - 1]

PrevMatch(s) ==
    IF Len(s.matches.v) = 0 THEN s
    ELSE [s EXCEPT !.currentMatch = IF s.currentMatch - 1 < 0
                                    THEN Len(s.matches.v) - 1
                                    ELSE s.currentMatch - 1]

MatchStatus(s) ==
    IF s.fzfError # "" THEN s.fzfError
    ELSE IF Len(s.matches.v) = 0 THEN "no matches"
    ELSE ToString(s.currentMatch + 1) \o "/" \o ToString(Len(s.matches.v))

IsLineMatched(s, lineIdx) == lineIdx \in s.matchSet

IsCurrentMatch(s, lineIdx) == CurrentMatchLine(s) = lineIdx

-----------------------------------------------------------------------------
(* panels.DiffPanel: the displayed lines, the line cursor, the file path   *)
(* ("" is NoPath) and the panel height the page size derives from.         *)

NoPath == 0

NewDiffPanel ==
    [lines |-> <<>>, cursorLine |-> 0, filePath |-> NoPath, height |-> 0,
     searchState |-> NewSearchState]

ContentHeight(p) == p.height - 2

\* SetDiff that keeps the previous diff's matches while searching.
SetDiffKeepsMatches(p, filePath, content) ==
    [p EXCEPT !.filePath = filePath, !.lines = StringsSplit(content),
              !.cursorLine = 0]

SetDiff(p, filePath, content) ==
    LET q == [p EXCEPT !.filePath = filePath, !.lines = StringsSplit(content),
                       !.cursorLine = 0]
    IN  IF p.searchState.active
        THEN [q EXCEPT !.searchState.matches = NilSlice,
                       !.searchState.matchSet = {},
                       !.searchState.currentMatch = -1]
        ELSE q

ClearDiff(p) ==
    [p EXCEPT !.filePath = NoPath, !.lines = <<>>, !.cursorLine = 0,
              !.searchState = Reset(p.searchState)]

IsSearching(p) == p.searchState.active

ActivateSearch(p) ==
    [p EXCEPT !.searchState.active = TRUE, !.searchState.input.focus = TRUE]

DeactivateSearch(p) == [p EXCEPT !.searchState = Reset(p.searchState)]

SetSearchQuery(p, query) == [p EXCEPT !.searchState.input.value = query]

\* SetSearchMatches that sends the cursor to the top when nothing matches.
SetSearchMatchesResetsCursor(p, matches) ==
    LET q == [p EXCEPT !.searchState.matches = matches,
                       !.searchState.matchSet = Range(matches.v)]
    IN  IF Len(matches.v) > 0
        THEN [q EXCEPT !.searchState.currentMatch = 0,
                       !.cursorLine = matches.v[1]]
        ELSE [q EXCEPT !.searchState.currentMatch = -1, !.cursorLine = 0]

SetSearchMatches(p, matches) ==
    LET q == [p EXCEPT !.searchState.matches = matches,
                       !.searchState.matchSet = Range(matches.v)]
    IN  IF Len(matches.v) > 0
        THEN [q EXCEPT !.searchState.currentMatch = 0,
                       !.cursorLine = matches.v[1]]
        ELSE [q EXCEPT !.searchState.currentMatch = -1]

CycleNextMatch(p) ==
    IF ~HasMatches(p.searchState) THEN p
    ELSE LET s == NextMatch(p.searchState)
         IN  [p EXCEPT !.searchState = s, !.cursorLine = CurrentMatchLine(s)]

cursorUp(p) ==
    IF p.cursorLine > 0 THEN [p EXCEPT !.cursorLine = p.cursorLine - 1] ELSE p

cursorDown(p) ==
    IF p.cursorLine < Len(p.lines) - 1
    THEN [p EXCEPT !.cursorLine = p.cursorLine + 1]
    ELSE p

pageUp(p) ==
    LET c == p.cursorLine - ContentHeight(p)
    IN  [p EXCEPT !.cursorLine = IF c < 0 THEN 0 ELSE c]

pageDown(p) ==
    LET c == p.cursorLine + ContentHeight(p)
        d == IF c >= Len(p.lines) THEN Len(p.lines) - 1 ELSE c
    IN  [p EXCEPT !.cursorLine = IF d < 0 THEN 0 ELSE d]

gotoTop(p) == [p EXCEPT !.cursorLine = 0]

gotoBottom(p) ==
    IF Len(p.lines) > 0 THEN [p EXCEPT !.cursorLine = Len(p.lines) - 1] ELSE p

\* SearchState.Activate
SearchStateActivate(s) ==
    [s EXCEPT !.active = TRUE, !.input = [value |-> <<>>, focus |-> TRUE],
              !.matches = NilSlice, !.matchSet = {}, !.currentMatch = -1,
              !.fzfError = ""]

\* DiffPanel.handleSearchInput
DiffHandleSearchInput(p, key) ==
    IF key = "esc" THEN
        [p EXCEPT !.searchState.active = FALSE,
                  !.searchState.input.focus = FALSE]
    ELSE IF key = "enter" THEN CycleNextMatch(p)
    ELSE [p EXCEPT !.searchState.input = InputUpdate(p.searchState.input, key)]

\* DiffPanel.Update for a key.
DiffPanelUpdate(p, key) ==
    IF p.searchState.active THEN DiffHandleSearchInput(p, key)
    ELSE IF key = "/" THEN
        [p EXCEPT !.searchState = SearchStateActivate(p.searchState)]
    ELSE IF key = "ctrl+n" THEN cursorDown(p)
    ELSE IF key = "ctrl+p" THEN cursorUp(p)
    ELSE IF key = "ctrl+v" THEN pageDown(p)
    ELSE IF key = "alt+v" THEN pageUp(p)
    ELSE IF key = "alt+<" THEN gotoTop(p)
    ELSE IF key = "alt+>" THEN gotoBottom(p)
    ELSE p

\* DiffPanel.SetSize
DiffSetSize(p, height) == [p EXCEPT !.height = height]

-----------------------------------------------------------------------------
(* ui.App: the application record is the tuple of the state variables the  *)
(* Update loop owns; a handler yields the record afterwards and the        *)
(* commands it returns.  statusMsg, widths and the viewports only feed     *)
(* rendering and are left out.                                             *)

App ==
    [searchCtrl |-> searchCtrl, filesPanel |-> filesPanel,
     diffPanel |-> diffPanel, diffCache |-> diffCache, modalOpen |-> modalOpen]

NewApp ==
    [searchCtrl |-> NewController, filesPanel |-> NewFilesPanel,
     diffPanel |-> NewDiffPanel, diffCache |-> <<>>, modalOpen |-> FALSE]

\* A cache of one entry: storing a diff evicts the others.
CachePutEvicts(cache, path, content) == [x \in {path} |-> content]

\* diffCache[path] = content
CachePut(cache, path, content) ==
    [x \in (DOMAIN cache) \cup {path} |->
        IF x = path THEN content ELSE cache[x]]

loadDiff(path) == [type |-> "loadDiff", path |-> path]

\* The orders fzf may print its hits in when updateDiffSearchMatches runs
\* it for the query on the lines (one empty order when fzf is not run).
MatchOrders(query, lines) ==
    IF query = <<>> \/ Len(lines) = 0 \/ ~LookPathFzf THEN {<<>>}
    ELSE FzfOrders(query, lines)

updateDiffSearchMatches(a, query, ord) ==
    IF query = <<>>
    THEN [a EXCEPT !.diffPanel = SetSearchMatches(a.diffPanel, NilSlice)]
    ELSE LET r == SearchInDiff(query, a.diffPanel.lines, ord)
         IN  [a EXCEPT !.diffPanel = SetSearchMatches(a.diffPanel, r.matches)]

\* runSearch that leaves the files panel's filter as it was.
runSearchKeepsPanelFilter(a, ord) ==
    LET query == a.searchCtrl.query
        paths == FilePaths(a.filesPanel)
        ctrl == SearchAllFiles(a.searchCtrl, query, paths, a.diffCache)
        a1 == [a EXCEPT !.searchCtrl = ctrl,
                        !.diffPanel = SetSearchQuery(a.diffPanel, query)]
    IN  updateDiffSearchMatches(a1, query, ord)

\* runSearch that leaves the diff panel's matches as they were.
runSearchFilesOnly(a, ord) ==
    LET query == a.searchCtrl.query
        paths == FilePaths(a.filesPanel)
        ctrl == SearchAllFiles(a.searchCtrl, query, paths, a.diffCache)
        filteredIdxs == ctrl.filteredIdxs
        fp == IF ~filteredIdxs.nil
              THEN SetFilteredIndices(a.filesPanel, filteredIdxs)
              ELSE ClearFilter(a.filesPanel)
    IN  [a EXCEPT !.searchCtrl = ctrl, !.filesPanel = fp,
                  !.diffPanel = SetSearchQuery(a.diffPanel, query)]

runSearch(a, ord) ==
    LET query == a.searchCtrl.query
        paths == FilePaths(a.filesPanel)
        ctrl == SearchAllFiles(a.searchCtrl, query, paths, a.diffCache)
        filteredIdxs == ctrl.filteredIdxs
        fp == IF ~filteredIdxs.nil
              THEN SetFilteredIndices(a.filesPanel, filteredIdxs)
              ELSE ClearFilter(a.filesPanel)
        a1 == [a EXCEPT !.searchCtrl = ctrl, !.filesPanel = fp,
                        !.diffPanel = SetSearchQuery(a.diffPanel, query)]
    IN  updateDiffSearchMatches(a1, query, ord)

\* preloadDiffsAsync collecting every path, cached or not.
UncachedPathsAll(paths, cache) == paths

\* preloadDiffsAsync: the uncached paths in file-list order.
RECURSIVE UncachedPaths(_, _)
UncachedPaths(paths, cache) ==
    IF Len(paths) = 0 THEN <<>>
    ELSE IF Head(paths) \in DOMAIN cache THEN UncachedPaths(Tail(paths), cache)
    ELSE <<Head(paths)>> \o UncachedPaths(Tail(paths), cache)

preloadDiffsAsync(a) ==
    LET uncachedPaths == UncachedPaths(FilePaths(a.filesPanel), a.diffCache)
    IN  IF Len(uncachedPaths) = 0 THEN <<>>
        ELSE <<[type |-> "preload", paths |-> uncachedPaths]>>

\* activateSearch that leaves the diff panel out of search mode.
activateSearchCtrlOnly(a) ==
    LET a1 == [a EXCEPT !.searchCtrl = Activate(a.searchCtrl)]
    IN  [app |-> a1, cmds |-> preloadDiffsAsync(a1)]

activateSearch(a) ==
    LET a1 == [a EXCEPT !.searchCtrl = Activate(a.searchCtrl),
                        !.diffPanel = ActivateSearch(a.diffPanel)]
    IN  [app |-> a1, cmds |-> preloadDiffsAsync(a1)]

\* deactivateSearch that leaves the files panel's filter in place.
deactivateSearchKeepsFilter(a) ==
    [a EXCEPT !.searchCtrl = Deactivate(a.searchCtrl),
              !.diffPanel = DeactivateSearch(a.diffPanel)]

deactivateSearch(a) ==
    [a EXCEPT !.searchCtrl = Deactivate(a.searchCtrl),
              !.filesPanel = ClearFilter(a.filesPanel),
              !.diffPanel = DeactivateSearch(a.diffPanel)]

openFeedbackModal(a) ==
    IF a.diffPanel.filePath = NoPath THEN a ELSE [a EXCEPT !.modalOpen = TRUE]

closeModal(a) == [a EXCEPT !.modalOpen = FALSE]

\* App.handleSearchInput
\* handleSearchInput where enter opens the feedback modal as in normal mode.
handleSearchInputEnterOpensModal(a, key, ord) ==
    IF key = "esc" THEN [app |-> deactivateSearch(a), cmds |-> <<>>]
    ELSE IF key = "enter" THEN [app |-> openFeedbackModal(a), cmds |-> <<>>]
    ELSE IF key \in {"up", "down"} THEN
        LET r == FilesPanelUpdate(a.filesPanel, key)
        IN  [app |-> [a EXCEPT !.filesPanel = r.panel], cmds |-> r.cmds]
    ELSE LET oldQuery == a.searchCtrl.query
             a1 == [a EXCEPT !.searchCtrl = UpdateInput(a.searchCtrl, key)]
         IN  [app |-> IF a1.searchCtrl.query # oldQuery THEN runSearch(a1, ord)
                      ELSE a1,
              cmds |-> <<>>]

handleSearchInput(a, key, ord) ==
    IF key = "esc" THEN [app |-> deactivateSearch(a), cmds |-> <<>>]
    ELSE IF key = "enter" THEN
        [app |-> [a EXCEPT !.diffPanel = CycleNextMatch(a.diffPanel)],
         cmds |-> <<>>]
    ELSE IF key \in {"up", "down"} THEN
        LET r == FilesPanelUpdate(a.filesPanel, key)
        IN  [app |-> [a EXCEPT !.filesPanel = r.panel], cmds |-> r.cmds]
    ELSE LET oldQuery == a.searchCtrl.query
             a1 == [a EXCEPT !.searchCtrl = UpdateInput(a.searchCtrl, key)]
         IN  [app |-> IF a1.searchCtrl.query # oldQuery THEN runSearch(a1, ord)
                      ELSE a1,
              cmds |-> <<>>]

\* The query handleSearchInput searches for after the key.
QueryAfterKey(a, key) == UpdateInput(a.searchCtrl, key).query


\* App.Update, case tea.KeyMsg, with no modal open and search inactive.
\* tea.Quit is reported as the command "quit".
handleGlobalKey(a, key) ==
    IF key \in {"q", "ctrl+c"} THEN [app |-> a, cmds |-> <<[type |-> "quit"]>>]
    ELSE IF key = "/" THEN activateSearch(a)
    ELSE IF key = "enter" THEN [app |-> openFeedbackModal(a), cmds |-> <<>>]
    ELSE IF key \in {"up", "down"} THEN
        LET r == FilesPanelUpdate(a.filesPanel, key)
        IN  [app |-> [a EXCEPT !.filesPanel = r.panel], cmds |-> r.cmds]
    ELSE IF key \in {"ctrl+n", "ctrl+p", "ctrl+v", "alt+v", "alt+<", "alt+>"} THEN
        [app |-> [a EXCEPT !.diffPanel = DiffPanelUpdate(a.diffPanel, key)],
         cmds |-> <<>>]
    ELSE [app |-> a, cmds |-> <<>>]

\* FeedbackModal.Update for a key: "enter" saves a non-empty comment and
\* cancels an empty one, "esc" cancels, any other key edits the text.
modalUpdate(key, hasComment) ==
    IF key = "enter" THEN
        IF hasComment THEN <<[type |-> "FeedbackSavedMsg"]>>
        ELSE <<[type |-> "FeedbackCancelledMsg"]>>
    ELSE IF key = "esc" THEN <<[type |-> "FeedbackCancelledMsg"]>>
    ELSE <<>>

\* App.Update, case panels.FileSelectedMsg
onFileSelected(path) == loadDiff(path)

\* App.Update, case filesLoadedMsg
onFilesLoaded(a, files) ==
    [app |-> [a EXCEPT !.filesPanel = SetFiles(a.filesPanel, files)],
     cmds |-> IF Len(files) > 0 THEN <<loadDiff(files[1].Path)>> ELSE <<>>]

\* The diffLoadedMsg handler that never searches the new diff.
onDiffLoadedNoSearch(a, path, content, ord) ==
    [a EXCEPT !.diffCache = CachePut(a.diffCache, path, content),
              !.diffPanel = SetDiff(a.diffPanel, path, content)]

\* App.Update, case diffLoadedMsg; ord is the order of fzf's hits on the
\* new lines.
onDiffLoaded(a, path, content, ord) ==
    LET a1 == [a EXCEPT !.diffCache = CachePut(a.diffCache, path, content),
                        !.diffPanel = SetDiff(a.diffPanel, path, content)]
    IN  IF a1.searchCtrl.active
        THEN updateDiffSearchMatches(
                 [a1 EXCEPT !.diffPanel =
                      SetSearchQuery(a1.diffPanel, a1.searchCtrl.query)],
                 a1.searchCtrl.query, ord)
        ELSE a1

\* The cache after the loop over msg.results.
RECURSIVE MergeResults(_, _)
MergeResults(cache, results) ==
    IF Len(results) = 0 THEN cache
    ELSE MergeResults(CachePut(cache, Head(results).path, Head(results).content),
                      Tail(results))

\* The batch handler that fills the cache and never searches again.
onDiffsPreloadedBatchNoSearch(a, results, ord) ==
    [a EXCEPT !.diffCache = MergeResults(a.diffCache, results)]

\* The batch handler that throws the results away.
onDiffsPreloadedBatchDropsResults(a, results, ord) ==
    IF a.searchCtrl.active /\ a.searchCtrl.query # <<>>
    THEN runSearch(a, ord)
    ELSE a

\* App.Update, case diffsPreloadedBatchMsg
onDiffsPreloadedBatch(a, results, ord) ==
    LET a1 == [a EXCEPT !.diffCache = MergeResults(a.diffCache, results)]
    IN  IF a1.searchCtrl.active /\ a1.searchCtrl.query # <<>>
        THEN runSearch(a1, ord)
        ELSE a1

\* App.updatePanelSizes: the diff panel gets the terminal height less the
\* help bar's line.
updatePanelSizes(a, height) ==
    [a EXCEPT !.diffPanel = DiffSetSize(a.diffPanel, height - 1)]

-----------------------------------------------------------------------------
(* The VCS.                                                                *)

DiffFail == [err |-> TRUE, content |-> <<>>]

DiffOk(content) == [err |-> FALSE, content |-> content]

\* The diff texts of the model: an empty diff, a one-line diff and a
\* two-line diff.
Contents == {<<>>, <<"q">>, <<"q", NL, "0">>}

\* The results of the preload command's loop over uncachedPaths: the
\* diffs that loaded, in order.
RECURSIVE PreloadResults(_, _)
PreloadResults(paths, vcs) ==
    IF Len(paths) = 0 THEN <<>>
    ELSE LET d == vcs.diff[Head(paths)]
             rest == PreloadResults(Tail(paths), vcs)
         IN  IF d.err THEN rest
             ELSE <<[path |-> Head(paths), content |-> d.content]>> \o rest


DiffChoices == {DiffFail} \cup {DiffOk(c) : c \in Contents}

\* A repository: ChangedFiles fails, or reports the files 1..n, each with a
\* diff that loads or fails.
Repos ==
    {[err |-> TRUE, files |-> <<>>, diff |-> <<>>]}
    \cup UNION {{[err |-> FALSE, files |-> [i \in 1..n |-> FileChange(i)],
                   diff |-> d] : d \in [1..n -> DiffChoices]} : n \in 0..MaxFiles}

-----------------------------------------------------------------------------
(* The application: Bubble Tea delivers one message at a time to           *)
(* App.Update; the commands Update returns run concurrently and their      *)
(* messages arrive in any order.                                           *)

Keys ==
    Runes \cup {"backspace", "esc", "enter", "up", "down", "ctrl+c", "ctrl+n",
                "ctrl+p", "ctrl+v", "alt+v", "alt+<", "alt+>"}

AddCmds(bag, cmds) ==
    IF Len(cmds) = 0 THEN bag ELSE bag (+) SetToBag({cmds[1]})

Take(bag, m) == bag (-) SetToBag({m})

SetApp(a) ==
    /\ searchCtrl' = a.searchCtrl
    /\ filesPanel' = a.filesPanel
    /\ diffPanel' = a.diffPanel
    /\ diffCache' = a.diffCache
    /\ modalOpen' = a.modalOpen

\* The commands a handler returns, as the commands left in flight: a
\* FileSelectedMsg is delivered to Update, which changes no state and
\* returns loadDiff(msg.Path); tea.Quit ends the program.
RECURSIVE InFlight(_)
InFlight(cmds) ==
    IF Len(cmds) = 0 THEN <<>>
    ELSE IF Head(cmds).type = "FileSelectedMsg"
    THEN <<onFileSelected(Head(cmds).path)>> \o InFlight(Tail(cmds))
    ELSE IF Head(cmds).type = "quit" THEN InFlight(Tail(cmds))
    ELSE <<Head(cmds)>> \o InFlight(Tail(cmds))

\* One Update step: the record afterwards, a message consumed, the
\* commands started.
Step(r, consumed) ==
    LET left == IF consumed = <<>> THEN pending ELSE Take(pending, consumed[1])
    IN  /\ BagCardinality(left) + Len(InFlight(r.cmds)) <= MaxPending
        /\ r.app.diffPanel.cursorLine <= MaxCursorLine
        /\ SetApp(r.app)
        /\ pending' = AddCmds(left, InFlight(r.cmds))
        /\ running' = (\A i \in 1..Len(r.cmds) : r.cmds[i].type # "quit")
        /\ UNCHANGED <<fzfInstalled, repo, fixture, call>>

Init ==
    /\ fzfInstalled \in BOOLEAN
    /\ repo \in Repos
    /\ searchCtrl = NewApp.searchCtrl
    /\ filesPanel = NewApp.filesPanel
    /\ diffPanel = NewApp.diffPanel
    /\ diffCache = NewApp.diffCache
    /\ modalOpen = NewApp.modalOpen
    /\ pending = SetToBag({[type |-> "loadFiles"]})
    /\ running = TRUE
    /\ fixture = [files |-> <<>>, diffs |-> <<>>]
    /\ call = [op |-> "NewApp"]

\* tea.WindowSizeMsg
WindowSize ==
    /\ running
    /\ Step([app |-> updatePanelSizes(App, TermHeight), cmds |-> <<>>], <<>>)

\* tea.KeyMsg while the feedback modal is open
KeyModal ==
    /\ running /\ modalOpen
    /\ \E key \in Keys :
       \E hasComment \in (IF key = "enter" THEN BOOLEAN ELSE {FALSE}) :
          Step([app |-> App, cmds |-> modalUpdate(key, hasComment)], <<>>)

\* tea.KeyMsg in search mode
KeySearch ==
    /\ running /\ ~modalOpen /\ searchCtrl.active
    /\ \E key \in Keys :
          /\ key \in Runes => Len(searchCtrl.input.value) < AppMaxQueryLen
          /\ \E ord \in MatchOrders(QueryAfterKey(App, key), diffPanel.lines) :
                Step(handleSearchInput(App, key, ord), <<>>)

\* tea.KeyMsg in normal mode
KeyGlobal ==
    /\ running /\ ~modalOpen /\ ~searchCtrl.active
    /\ \E key \in Keys :
          Step(handleGlobalKey(App, key), <<>>)

\* The loadFiles command ends: filesLoadedMsg, or errMsg.
FilesLoaded ==
    /\ running
    /\ \E m \in BagToSet(pending) :
          /\ m.type = "loadFiles"
          /\ IF repo.err
             THEN Step([app |-> App, cmds |-> <<>>], <<m>>)
             ELSE Step(onFilesLoaded(App, repo.files), <<m>>)

\* A loadDiff command ends: diffLoadedMsg, or errMsg.
DiffLoaded ==
    /\ running
    /\ \E m \in BagToSet(pending) :
          /\ m.type = "loadDiff"
          /\ LET d == repo.diff[m.path]
             IN  IF d.err
                 THEN Step([app |-> App, cmds |-> <<>>], <<m>>)
                 ELSE \E ord \in MatchOrders(
                              IF searchCtrl.active THEN searchCtrl.query ELSE <<>>,
                              StringsSplit(d.content)) :
                         Step([app |-> onDiffLoaded(App, m.path, d.content, ord),
                               cmds |-> <<>>], <<m>>)

\* The preload command ends: diffsPreloadedBatchMsg.
DiffsPreloadedBatch ==
    /\ running
    /\ \E m \in BagToSet(pending) :
          /\ m.type = "preload"
          /\ \E ord \in MatchOrders(searchCtrl.query, diffPanel.lines) :
                Step([app |-> onDiffsPreloadedBatch(
                                  App, PreloadResults(m.paths, repo), ord),
                      cmds |-> <<>>], <<m>>)

\* floating.FeedbackSavedMsg, floating.FeedbackCancelledMsg
FeedbackClosed ==
    /\ running
    /\ \E m \in BagToSet(pending) :
          /\ m.type \in {"FeedbackSavedMsg", "FeedbackCancelledMsg"}
          /\ Step([app |-> closeModal(App), cmds |-> <<>>], <<m>>)

Next ==
    \/ WindowSize
    \/ KeyModal
    \/ KeySearch
    \/ KeyGlobal
    \/ FilesLoaded
    \/ DiffLoaded
    \/ DiffsPreloadedBatch
    \/ FeedbackClosed

Spec == Init /\ [][Next]_vars

-----------------------------------------------------------------------------
(* The controller on its own, driven as its tests drive it: a file list    *)
(* and a diff map are fixed at the start, and any operation with any query *)
(* is applied from any state reached so far.                               *)

Queries == SeqsUpTo(Runes, MaxQueryLen)

\* The queries SearchAllFiles is given: over the characters the diffs are
\* made of ("qq" and "q0" match no diff, "0" matches only one of them).
CtrlQueries == SeqsUpTo({"q", "0"}, MaxQueryLen)

\* File lists: the orderings of any paths, no path twice.
FileLists == {f \in SeqsUpTo(Paths, MaxFiles) : IsInjective(f)}

\* Diff maps: any of the paths cached, with any content.
DiffMaps == UNION {[D -> Contents] : D \in SUBSET Paths}

\* Line lists handed to SearchInDiff.
LineLists == SeqsUpTo(SeqsUpTo({"q", "0"}, MaxLineLen), MaxLines)

HarnessInit(fixtures) ==
    /\ fzfInstalled \in BOOLEAN
    /\ repo = [err |-> FALSE, files |-> <<>>, diff |-> <<>>]
    /\ searchCtrl = NewController
    /\ filesPanel = NewFilesPanel
    /\ diffPanel = NewDiffPanel
    /\ diffCache = <<>>
    /\ modalOpen = FALSE
    /\ pending = EmptyBag
    /\ running = TRUE
    /\ fixture \in fixtures
    /\ call = [op |-> "New"]

CtrlInit == HarnessInit([files : FileLists, diffs : DiffMaps])

\* What the record of a call keeps of the controller before it.
PreOf(c) ==
    [active |-> c.active, hasQuery |-> c.query # <<>>,
     filtered |-> ~c.filteredIdxs.nil, noMatches |-> c.noMatches]

CtrlFrame ==
    UNCHANGED <<fzfInstalled, repo, filesPanel, diffPanel, diffCache,
                modalOpen, pending, running, fixture>>

CtrlActivate ==
    /\ searchCtrl' = Activate(searchCtrl)
    /\ call' = [op |-> "Activate", pre |-> PreOf(searchCtrl)]
    /\ CtrlFrame

CtrlDeactivate ==
    /\ searchCtrl' = Deactivate(searchCtrl)
    /\ call' = [op |-> "Deactivate", pre |-> PreOf(searchCtrl)]
    /\ CtrlFrame

CtrlUpdateInput ==
    /\ \E key \in {"q", "backspace", "left"} :
          /\ key \in Runes => Len(searchCtrl.input.value) < MaxInputLen
          /\ searchCtrl' = UpdateInput(searchCtrl, key)
          /\ call' = [op |-> "UpdateInput", key |-> key]
    /\ CtrlFrame

CtrlSearchAllFiles ==
    /\ \E query \in CtrlQueries :
          /\ searchCtrl' = SearchAllFiles(searchCtrl, query, fixture.files,
                                          fixture.diffs)
          /\ call' = [op |-> "SearchAllFiles", query |-> query,
                      pre |-> PreOf(searchCtrl)]
    /\ CtrlFrame

CtrlNext ==
    \/ CtrlActivate
    \/ CtrlDeactivate
    \/ CtrlUpdateInput
    \/ CtrlSearchAllFiles

SpecCtrl == CtrlInit /\ [][CtrlNext]_vars

-----------------------------------------------------------------------------
(* SearchInDiff on its own: it reads no controller state, so one call on   *)
(* a query and a line list fixed at the start shows all it does.           *)

MatchInit == HarnessInit([query : Queries, lines : LineLists])

MatchSearchInDiff ==
    /\ call.op = "New"
    /\ \E ord \in MatchOrders(fixture.query, fixture.lines) :
          call' = [op |-> "SearchInDiff", query |-> fixture.query,
                   lines |-> fixture.lines, ord |-> ord,
                   ret |-> SearchInDiff(fixture.query, fixture.lines, ord)]
    /\ UNCHANGED <<fzfInstalled, repo, searchCtrl, filesPanel, diffPanel,
                   diffCache, modalOpen, pending, running, fixture>>

MatchNext == MatchSearchInDiff

SpecMatch == MatchInit /\ [][MatchNext]_vars

-----------------------------------------------------------------------------
(* The diff panel on its own, driven as its tests drive it: any operation  *)
(* with any argument from any state reached so far. call.pre is the panel  *)
(* before the call.                                                        *)

\* Match lists: nil, or ascending line indices.
MatchLists ==
    {NilSlice} \cup
    {Slice(m) : m \in {x \in SeqsUpTo(0..(MaxMatches - 1), MaxMatches) :
                          Len(x) > 0 /\ \A i, j \in 1..Len(x) :
                                            i < j => x[i] < x[j]}}

DiffInit == HarnessInit({[files |-> <<>>, diffs |-> <<>>]})

DiffFrame ==
    UNCHANGED <<fzfInstalled, repo, searchCtrl, filesPanel, diffCache,
                modalOpen, pending, running, fixture>>

\* What the record of a call keeps of the panel before it.
PreOfDiff(p) ==
    [active |-> p.searchState.active, hasMatches |-> HasMatches(p.searchState),
     cursorMoved |-> p.cursorLine > 0]

\* The panel after a call and the record of the call.
DiffCall(op, p) ==
    /\ p.cursorLine <= MaxCursorLine
    /\ Len(p.searchState.input.value) <= MaxInputLen
    /\ diffPanel' = p
    /\ call' = op @@ [pre |-> PreOfDiff(diffPanel)]

DiffSetDiff ==
    /\ \E path \in {1}, content \in Contents :
          DiffCall([op |-> "SetDiff", path |-> path, content |-> content],
                   SetDiff(diffPanel, path, content))
    /\ DiffFrame

DiffClearDiff ==
    /\ DiffCall([op |-> "ClearDiff"], ClearDiff(diffPanel))
    /\ DiffFrame

DiffActivateSearch ==
    /\ DiffCall([op |-> "ActivateSearch"], ActivateSearch(diffPanel))
    /\ DiffFrame

DiffDeactivateSearch ==
    /\ DiffCall([op |-> "DeactivateSearch"], DeactivateSearch(diffPanel))
    /\ DiffFrame

DiffSetSearchMatches ==
    /\ \E m \in MatchLists :
          DiffCall([op |-> "SetSearchMatches", matches |-> m],
                   SetSearchMatches(diffPanel, m))
    /\ DiffFrame

DiffCycleNextMatch ==
    /\ DiffCall([op |-> "CycleNextMatch"], CycleNextMatch(diffPanel))
    /\ DiffFrame

DiffNextMatch ==
    /\ DiffCall([op |-> "NextMatch"],
                [diffPanel EXCEPT
                    !.searchState = NextMatch(diffPanel.searchState)])
    /\ DiffFrame

DiffPrevMatch ==
    /\ DiffCall([op |-> "PrevMatch"],
                [diffPanel EXCEPT
                    !.searchState = PrevMatch(diffPanel.searchState)])
    /\ DiffFrame

DiffKey ==
    /\ \E key \in {"/", "esc", "enter", "ctrl+n", "ctrl+p", "ctrl+v", "alt+v",
                   "alt+<", "alt+>"} :
          DiffCall([op |-> "Update", key |-> key],
                   DiffPanelUpdate(diffPanel, key))
    /\ DiffFrame

DiffResize ==
    /\ DiffCall([op |-> "SetSize"], DiffSetSize(diffPanel, TermHeight - 1))
    /\ DiffFrame

DiffNext ==
    \/ DiffSetDiff
    \/ DiffClearDiff
    \/ DiffActivateSearch
    \/ DiffDeactivateSearch
    \/ DiffSetSearchMatches
    \/ DiffCycleNextMatch
    \/ DiffNextMatch
    \/ DiffPrevMatch
    \/ DiffKey
    \/ DiffResize

SpecDiff == DiffInit /\ [][DiffNext]_vars

-----------------------------------------------------------------------------
(* The files panel on its own, driven as its tests drive it.  The index    *)
(* lists given to SetFilteredIndices are nil, empty or ascending, over     *)
(* 0..MaxPanelFiles: the last value is never a valid file index.           *)

PanelFileLists ==
    {[i \in 1..n |-> FileChange(i)] : n \in 0..MaxPanelFiles}

IndexLists ==
    {NilSlice} \cup
    {Slice(x) : x \in {y \in SeqsUpTo(0..MaxPanelFiles, MaxPanelFiles + 1) :
                          \A i, j \in 1..Len(y) : i < j => y[i] < y[j]}}

FilesInit == HarnessInit({[files |-> <<>>, diffs |-> <<>>]})

FilesFrame ==
    UNCHANGED <<fzfInstalled, repo, searchCtrl, diffPanel, diffCache,
                modalOpen, pending, running, fixture>>

\* What the record of a call keeps of the panel before it.
PreOfFiles(p) == [filtered |-> IsFiltered(p), cursorMoved |-> p.cursor > 0]

FilesCall(op, p) ==
    /\ filesPanel' = p
    /\ call' = op @@ [pre |-> PreOfFiles(filesPanel)]

FilesSetFiles ==
    /\ \E files \in PanelFileLists :
          FilesCall([op |-> "SetFiles", files |-> files],
                    SetFiles(filesPanel, files))
    /\ FilesFrame

FilesSetFilteredIndices ==
    /\ \E indices \in IndexLists :
          FilesCall([op |-> "SetFilteredIndices", indices |-> indices],
                    SetFilteredIndices(filesPanel, indices))
    /\ FilesFrame

FilesClearFilter ==
    /\ FilesCall([op |-> "ClearFilter"], ClearFilter(filesPanel))
    /\ FilesFrame

FilesKey ==
    /\ \E key \in {"up", "down"} :
          FilesCall([op |-> "Update", key |-> key,
                     cmds |-> FilesPanelUpdate(filesPanel, key).cmds],
                    FilesPanelUpdate(filesPanel, key).panel)
    /\ FilesFrame

FilesNext ==
    \/ FilesSetFiles
    \/ FilesSetFilteredIndices
    \/ FilesClearFilter
    \/ FilesKey

SpecFiles == FilesInit /\ [][FilesNext]_vars

-----------------------------------------------------------------------------
(* Properties of the search controller, stated over the record of the last *)
(* call: call.pre is the controller before it, searchCtrl the one after.   *)

\* A line of a diff matches a query when the matcher reports it: the
\* matcher is there to run and the line contains the query.
LineMatches(query, line) == LookPathFzf /\ StringsContains(line, query)

\* File index i (0-based) has a cached, non-empty diff with a matching line.
FileMatches(query, i) ==
    LET filePath == fixture.files[i + 1]
    IN  /\ filePath \in DOMAIN fixture.diffs
        /\ fixture.diffs[filePath] # <<>>
        /\ \E k \in 1..Len(StringsSplit(fixture.diffs[filePath])) :
              LineMatches(query, StringsSplit(fixture.diffs[filePath])[k])

MatchingFiles(query) ==
    {i \in 0..(Len(fixture.files) - 1) : FileMatches(query, i)}

StrictlyAscending(s) == \A i, j \in 1..Len(s) : i < j => s[i] < s[j]

\* C1: SearchAllFiles with the empty query leaves no filter (a nil
\* FilteredIndices) and noMatches false, whatever the file list, the cache
\* and the controller's state before the call.
C1_EmptyQueryNoFilter ==
    (call.op = "SearchAllFiles" /\ call.query = <<>>)
        => (searchCtrl.filteredIdxs = NilSlice /\ ~searchCtrl.noMatches)

\* An empty-query search issued while a filter over cached files was set.
C1_Witness ==
    /\ call.op = "SearchAllFiles" /\ call.query = <<>>
    /\ call.pre.filtered
    /\ call.pre.hasQuery
    /\ Len(fixture.files) = MaxFiles
    /\ searchCtrl.filteredIdxs.nil

\* C2: a non-empty query that no cached diff matches leaves the filter nil
\* and noMatches true; and after any SearchAllFiles with a non-empty query
\* an absent or empty filter never goes with noMatches false.
C2_NoMatchesFlagged ==
    (call.op = "SearchAllFiles" /\ call.query # <<>>)
        => /\ MatchingFiles(call.query) = {}
              => (searchCtrl.filteredIdxs = NilSlice /\ searchCtrl.noMatches)
           /\ ~(Len(searchCtrl.filteredIdxs.v) = 0 /\ ~searchCtrl.noMatches)

\* A search that matches nothing although the matcher runs and both files
\* have cached, non-empty diffs, issued while a filter was set.
C2_Witness ==
    /\ call.op = "SearchAllFiles" /\ call.query # <<>>
    /\ LookPathFzf
    /\ Len(fixture.files) = MaxFiles
    /\ \A i \in 1..Len(fixture.files) :
          /\ fixture.files[i] \in DOMAIN fixture.diffs
          /\ fixture.diffs[fixture.files[i]] # <<>>
    /\ call.pre.filtered
    /\ MatchingFiles(call.query) = {}
    /\ searchCtrl.noMatches

\* C3: a non-empty query with at least one matching file sets the filter
\* to exactly the indices, in file-list order, of the files whose cached,
\* non-empty diff has a matching line (so no uncached or empty-diff file
\* is in it), and noMatches is false.
C3_FilterIsMatchingFiles ==
    (call.op = "SearchAllFiles" /\ call.query # <<>>
        /\ MatchingFiles(call.query) # {})
        => /\ ~searchCtrl.filteredIdxs.nil
           /\ Range(searchCtrl.filteredIdxs.v) = MatchingFiles(call.query)
           /\ StrictlyAscending(searchCtrl.filteredIdxs.v)
           /\ ~searchCtrl.noMatches

\* Both files match, listed in the order opposite to their path order.
C3_Witness ==
    /\ call.op = "SearchAllFiles" /\ call.query # <<>>
    /\ fixture.files = <<2, 1>>
    /\ MatchingFiles(call.query) = {0, 1}
    /\ searchCtrl.filteredIdxs.v = <<0, 1>>

\* C5: Status() is the matcher error when one is recorded; otherwise
\* "no matches" when the flag is set; otherwise "1 file" for a filter of
\* one entry and "N files" for N > 1 entries; otherwise "".
C5_StatusPrecedence ==
    LET n == Len(searchCtrl.filteredIdxs.v)
    IN  /\ searchCtrl.fzfError # ""
           => Status(searchCtrl) = searchCtrl.fzfError
        /\ (searchCtrl.fzfError = "" /\ searchCtrl.noMatches)
           => Status(searchCtrl) = "no matches"
        /\ (searchCtrl.fzfError = "" /\ ~searchCtrl.noMatches /\ n = 1)
           => Status(searchCtrl) = "1 file"
        /\ (searchCtrl.fzfError = "" /\ ~searchCtrl.noMatches /\ n = 2)
           => Status(searchCtrl) = "2 files"
        /\ (searchCtrl.fzfError = "" /\ ~searchCtrl.noMatches /\ n > 1)
           => Status(searchCtrl) = ToString(n) \o " files"
        /\ (searchCtrl.fzfError = "" /\ ~searchCtrl.noMatches /\ n = 0)
           => Status(searchCtrl) = ""

\* The matcher error and the noMatches flag are both set.
C5_Witness ==
    /\ searchCtrl.fzfError = "fzf not found"
    /\ searchCtrl.noMatches
    /\ Status(searchCtrl) = "fzf not found"

\* C8: Activate() leaves the controller active with an empty query, no
\* filter and noMatches false; Deactivate() leaves it inactive with an
\* empty query, no filter and noMatches false; from any state.
C8_ActivateDeactivateReset ==
    /\ call.op = "Activate"
          => /\ searchCtrl.active
             /\ searchCtrl.query = <<>>
             /\ searchCtrl.filteredIdxs = NilSlice
             /\ ~searchCtrl.noMatches
    /\ call.op = "Deactivate"
          => /\ ~searchCtrl.active
             /\ searchCtrl.query = <<>>
             /\ searchCtrl.filteredIdxs = NilSlice
             /\ ~searchCtrl.noMatches

\* Deactivate() on an active controller whose last search matched nothing.
C8_Witness ==
    /\ call.op = "Deactivate"
    /\ call.pre.active
    /\ call.pre.hasQuery
    /\ call.pre.noMatches
    /\ ~searchCtrl.active

\* C10: SearchInDiff returns nil and no error when the query is empty or
\* there are no lines, with the matcher installed or not.
C10_EmptyArgsNoError ==
    (call.op = "SearchInDiff" /\ (call.query = <<>> \/ call.lines = <<>>))
        => (call.ret.matches = NilSlice /\ call.ret.err = "")

\* An empty query over non-empty lines with the matcher missing.
C10_Witness ==
    /\ call.op = "SearchInDiff"
    /\ call.query = <<>>
    /\ Len(call.lines) = MaxLines
    /\ ~LookPathFzf
    /\ call.ret.err = ""

-----------------------------------------------------------------------------
(* Properties of the running application.                                  *)

\* A filter is absent, or non-empty, strictly ascending and within
\* 0 .. n-1.
FilterWellFormed(f, n) ==
    \/ f = NilSlice
    \/ /\ ~f.nil
       /\ Len(f.v) > 0
       /\ StrictlyAscending(f.v)
       /\ \A k \in 1..Len(f.v) : 0 <= f.v[k] /\ f.v[k] < n

\* C4: in every reachable state a present filter, in the controller and in
\* the files panel, is non-empty, strictly ascending and made of valid file
\* indices; no matches is never an empty, present filter.
C4_FilterWellFormed ==
    /\ FilterWellFormed(searchCtrl.filteredIdxs, Len(filesPanel.files))
    /\ FilterWellFormed(filesPanel.filteredIdxs, Len(filesPanel.files))

\* Both panels hold a filter of two files.
C4_Witness ==
    /\ searchCtrl.filteredIdxs = Slice(<<0, 1>>)
    /\ filesPanel.filteredIdxs = Slice(<<0, 1>>)

\* The matcher is missing while a non-empty query is being searched for.
MatcherUnavailable ==
    running /\ ~modalOpen /\ ~LookPathFzf
        /\ searchCtrl.active /\ searchCtrl.query # <<>>

\* What the searches leave behind with the matcher missing, and the keys
\* that still have their effect: esc leaves search mode, backspace edits
\* the query, down moves to the next file of the unfiltered list.
C6_Degraded ==
    MatcherUnavailable
        => /\ searchCtrl.filteredIdxs = NilSlice
           /\ searchCtrl.noMatches
           /\ searchCtrl.fzfError = "fzf not found"
           /\ filesPanel.filteredIdxs = NilSlice
           /\ Len(diffPanel.lines) > 0
                 => SearchInDiff(searchCtrl.query, diffPanel.lines, <<>>)
                        = [matches |-> NilSlice, err |-> "fzf not found"]
           /\ ~HasMatches(diffPanel.searchState)
           /\ ENABLED (KeySearch /\ ~searchCtrl'.active)
           /\ ENABLED (KeySearch /\ searchCtrl'.query # searchCtrl.query)
           /\ (filesPanel.cursor < Len(filesPanel.files) - 1
                   /\ BagCardinality(pending) < MaxPending)
                 => ENABLED (KeySearch
                                /\ filesPanel'.cursor = filesPanel.cursor + 1)

\* A key pressed with the matcher missing does what it does otherwise:
\* leaving search mode clears the query and both filters, an edit keeps
\* query and input equal, a cursor move goes one file up or down and
\* starts loading that file's diff.
C6_KeyStep ==
    MatcherUnavailable
        => /\ ~searchCtrl'.active
                 => /\ searchCtrl'.query = <<>>
                    /\ filesPanel'.filteredIdxs = NilSlice
                    /\ ~diffPanel'.searchState.active
           /\ searchCtrl'.active
                 => /\ searchCtrl'.query = searchCtrl'.input.value
                    /\ diffPanel'.searchState.input.value
                           \in {searchCtrl'.query, diffPanel.searchState.input.value}
           /\ filesPanel'.cursor # filesPanel.cursor
                 => /\ filesPanel'.cursor
                           \in {filesPanel.cursor - 1, filesPanel.cursor + 1}
                    /\ HasSelectedFile(filesPanel')
                    /\ BagIn(loadDiff(SelectedFile(filesPanel').Path), pending')

\* C6: with the matcher unavailable a search with a non-empty query leaves
\* the filter absent, noMatches true and the matcher error recorded,
\* SearchInDiff returns an error and no matches, and the keys pressed
\* afterwards (navigation, query edit, deactivate) are still processed.
C6_MatcherUnavailableDegrades == [](C6_Degraded) /\ [][C6_KeyStep]_vars

\* The matcher is missing, a query is typed over two files, one of them
\* displayed.
C6_Witness ==
    /\ MatcherUnavailable
    /\ Len(filesPanel.files) = MaxFiles
    /\ Len(diffPanel.lines) > 1
    /\ searchCtrl.fzfError = "fzf not found"

\* C7: with the matcher unavailable and a non-empty query active, the
\* status shown in the diff panel's search bar is the matcher-unavailable
\* message, not "no matches". Stated for the states where a diff is
\* displayed, so that the search of its lines did fail for want of the
\* matcher.
C7_SearchBarShowsUnavailable ==
    (MatcherUnavailable /\ diffPanel.searchState.active
        /\ diffPanel.filePath # NoPath)
        => /\ MatchStatus(diffPanel.searchState) # "no matches"
           /\ MatchStatus(diffPanel.searchState) = searchCtrl.fzfError

\* C9: ClearFilter() twice on the files panel, and Deactivate() twice on
\* the search controller, leave the state one call leaves.
C9_Idempotent ==
    /\ ClearFilter(ClearFilter(filesPanel)) = ClearFilter(filesPanel)
    /\ Deactivate(Deactivate(searchCtrl)) = Deactivate(searchCtrl)

\* A filter is set and a search is active, so that one call changes both.
C9_Witness ==
    /\ IsFiltered(filesPanel)
    /\ searchCtrl.active /\ searchCtrl.query # <<>>
    /\ ClearFilter(filesPanel) # filesPanel
    /\ Deactivate(searchCtrl) # searchCtrl

-----------------------------------------------------------------------------
(* Properties of SearchInDiff, over the record of its call.                *)

\* C11: the indices SearchInDiff returns are strictly ascending (so none
\* appears twice) and valid indices into lines, in whatever order the
\* matcher printed its hits.
C11_MatchesAscendingValid ==
    call.op = "SearchInDiff"
        => /\ StrictlyAscending(call.ret.matches.v)
           /\ \A k \in 1..Len(call.ret.matches.v) :
                 /\ 0 <= call.ret.matches.v[k]
                 /\ call.ret.matches.v[k] < Len(call.lines)

\* Two lines hit, printed by the matcher last line first.
C11_Witness ==
    /\ call.op = "SearchInDiff"
    /\ Len(call.ord) = 2
    /\ call.ord # FzfHits(call.query, NumberedInput(call.lines, Len(call.lines)))
    /\ call.ret.matches.v = <<0, 1>>

\* The indices of the lines whose own text contains the query.
LinesContaining(query, lines) ==
    {i \in 0..(Len(lines) - 1) : StringsContains(lines[i + 1], query)}

\* C12: for a non-empty query SearchInDiff returns exactly the indices of
\* the lines whose own text contains the query; the "i:" prefix put before
\* each line causes no hit. Stated for a matcher that is there to run.
C12_ExactlyContainingLines ==
    (call.op = "SearchInDiff" /\ call.query # <<>> /\ LookPathFzf)
        => Range(call.ret.matches.v) = LinesContaining(call.query, call.lines)

-----------------------------------------------------------------------------
(* Properties of the diff panel and its search state, over the steps of    *)
(* the panel driven on its own.                                            *)

\* k successive NextMatch calls, k successive PrevMatch calls.
RECURSIVE NextMatchTimes(_, _)
NextMatchTimes(s, k) == IF k = 0 THEN s ELSE NextMatch(NextMatchTimes(s, k - 1))

RECURSIVE PrevMatchTimes(_, _)
PrevMatchTimes(s, k) == IF k = 0 THEN s ELSE PrevMatch(PrevMatchTimes(s, k - 1))

\* In the state: the current index is within [0, N) for N >= 1 matches and
\* none for no matches; N calls of either operation visit every index once
\* and come back.
C13_InState ==
    LET s == diffPanel.searchState
        N == Len(s.matches.v)
    IN  IF N = 0
        THEN /\ s.currentMatch = -1
             /\ NextMatch(s) = s
             /\ PrevMatch(s) = s
        ELSE /\ s.currentMatch \in 0..(N - 1)
             /\ {NextMatchTimes(s, k).currentMatch : k \in 1..N} = 0..(N - 1)
             /\ {PrevMatchTimes(s, k).currentMatch : k \in 1..N} = 0..(N - 1)
             /\ NextMatchTimes(s, N) = s
             /\ PrevMatchTimes(s, N) = s

\* In a step: NextMatch goes from i to (i+1) mod N, PrevMatch from i to
\* i-1 or, below 0, to N-1; nothing else of the search state changes.
C13_InStep ==
    LET s == diffPanel.searchState
        N == Len(s.matches.v)
        i == s.currentMatch
    IN  /\ (call'.op = "NextMatch" /\ N >= 1)
              => diffPanel'.searchState =
                     [s EXCEPT !.currentMatch = (i + 1) % N]
        /\ (call'.op = "PrevMatch" /\ N >= 1)
              => diffPanel'.searchState =
                     [s EXCEPT !.currentMatch = IF i - 1 < 0 THEN N - 1
                                                ELSE i - 1]
        /\ (call'.op \in {"NextMatch", "PrevMatch"} /\ N = 0)
              => (diffPanel' = diffPanel /\ diffPanel'.searchState.currentMatch = -1)

\* C13: with N >= 1 matches NextMatch maps i to (i+1) mod N and PrevMatch
\* maps i to i-1, wrapping to N-1; N calls visit every index of [0, N)
\* once and return to the start, the index never leaving [0, N); with no
\* matches both leave the index at -1.
C13_MatchCycling == [](C13_InState) /\ [][C13_InStep]_vars

\* PrevMatch has just wrapped from the first of three matches to the last.
C13_Witness ==
    /\ call.op = "PrevMatch"
    /\ Len(diffPanel.searchState.matches.v) = MaxMatches
    /\ diffPanel.searchState.currentMatch = MaxMatches - 1

\* C14: SetSearchMatches(m) installs m and the set of its elements; for a
\* non-empty m the current match becomes 0 and the line cursor m[0]; for
\* an empty m the current match becomes -1 and the line cursor stays.
C14_InStep ==
    call'.op = "SetSearchMatches"
        => LET m == call'.matches
           IN  /\ diffPanel'.searchState.matches = m
               /\ diffPanel'.searchState.matchSet = {m.v[k] : k \in 1..Len(m.v)}
               /\ Len(m.v) > 0
                     => /\ diffPanel'.searchState.currentMatch = 0
                        /\ diffPanel'.cursorLine = m.v[1]
               /\ Len(m.v) = 0
                     => /\ diffPanel'.searchState.currentMatch = -1
                        /\ diffPanel'.cursorLine = diffPanel.cursorLine

C14_SetSearchMatches == [][C14_InStep]_vars

\* An empty match list installed over earlier matches, the cursor staying
\* below the first line.
C14_Witness ==
    /\ call.op = "SetSearchMatches"
    /\ call.matches = NilSlice
    /\ call.pre.hasMatches /\ call.pre.cursorMoved
    /\ diffPanel.cursorLine > 0
    /\ diffPanel.searchState.currentMatch = -1

\* C15: SetDiff(path, content) puts the line cursor at 0 and replaces the
\* lines; while searching it drops the match list and set and the current
\* match and stays in search mode; it computes no matches: the search
\* state is otherwise as before.
C15_InStep ==
    call'.op = "SetDiff"
        => /\ diffPanel'.cursorLine = 0
           /\ diffPanel'.lines = StringsSplit(call'.content)
           /\ diffPanel'.filePath = call'.path
           /\ diffPanel.searchState.active
                 => diffPanel'.searchState =
                        [diffPanel.searchState EXCEPT
                            !.matches = NilSlice, !.matchSet = {},
                            !.currentMatch = -1]
           /\ ~diffPanel.searchState.active
                 => diffPanel'.searchState = diffPanel.searchState

C15_SetDiff == [][C15_InStep]_vars

\* A new diff set while searching with matches and the cursor moved.
C15_Witness ==
    /\ call.op = "SetDiff"
    /\ call.pre.active /\ call.pre.hasMatches /\ call.pre.cursorMoved
    /\ diffPanel.searchState.active
    /\ Len(diffPanel.lines) > 1
    /\ diffPanel.cursorLine = 0

-----------------------------------------------------------------------------
(* Properties of the files panel, over the steps of the panel driven on    *)
(* its own.                                                                *)

\* C16: SetFiles(files) replaces the file list, removes any filter
\* (IsFiltered false, Count = TotalCount = len(files)) and puts the cursor
\* on file index 0, from any panel state.
C16_InStep ==
    call'.op = "SetFiles"
        => /\ filesPanel'.files = call'.files
           /\ ~IsFiltered(filesPanel')
           /\ Count(filesPanel') = Len(call'.files)
           /\ TotalCount(filesPanel') = Len(call'.files)
           /\ filesPanel'.cursor = 0

C16_SetFiles == [][C16_InStep]_vars

\* A full list set over a filtered panel whose cursor had moved.
C16_Witness ==
    /\ call.op = "SetFiles"
    /\ call.pre.filtered /\ call.pre.cursorMoved
    /\ Len(filesPanel.files) = MaxPanelFiles
    /\ filesPanel.cursor = 0

\* C17: SetFilteredIndices with a non-empty list keeps the cursor when its
\* file index is in the list and otherwise moves it to the first entry;
\* the file list and TotalCount stay.
C17_InStep ==
    (call'.op = "SetFilteredIndices" /\ Len(call'.indices.v) > 0)
        => /\ filesPanel'.cursor =
                 IF \E k \in 1..Len(call'.indices.v) :
                        call'.indices.v[k] = filesPanel.cursor
                 THEN filesPanel.cursor
                 ELSE call'.indices.v[1]
           /\ filesPanel'.files = filesPanel.files
           /\ TotalCount(filesPanel') = TotalCount(filesPanel)

C17_CursorKeptOrSnapped == [][C17_InStep]_vars

\* The cursor kept on a later entry of the new filter.
C17_Witness ==
    /\ call.op = "SetFilteredIndices"
    /\ Len(call.indices.v) > 1
    /\ call.pre.cursorMoved
    /\ filesPanel.cursor = call.indices.v[2]
    /\ HasSelectedFile(filesPanel)

\* C18: after SetFilteredIndices every entry of the installed filter and
\* the cursor are valid file indices, SelectedFile() is non-nil for a
\* non-empty file list, and Count() is the number of files displayed,
\* also when the given list holds an index outside [0, len(files)).
C18_IndicesValidated ==
    call.op = "SetFilteredIndices"
        => /\ \A k \in 1..Len(filesPanel.filteredIdxs.v) :
                 /\ 0 <= filesPanel.filteredIdxs.v[k]
                 /\ filesPanel.filteredIdxs.v[k] < Len(filesPanel.files)
           /\ Len(filesPanel.files) > 0 => HasSelectedFile(filesPanel)
           /\ Count(filesPanel) = Len(displayFiles(filesPanel))

\* The indices the translations are asked about: every file index and
\* display position, and one value off each end.
Probes == (0 - 1)..(MaxPanelFiles + 1)

\* C19: with a filter, display(file(f)) = f for every f in the filter,
\* fileIndexToDisplayIndex(f) = -1 for every f not in it and
\* displayIndexToFileIndex(d) = -1 for every d outside [0, len(filter));
\* with no filter both translations are the identity.
C19_IndexTranslation ==
    LET p == filesPanel
        f == p.filteredIdxs.v
    IN  IF IsFiltered(p)
        THEN /\ \A x \in Range(f) :
                   displayIndexToFileIndex(p, fileIndexToDisplayIndex(p, x)) = x
             /\ \A x \in Probes \ Range(f) : fileIndexToDisplayIndex(p, x) = -1
             /\ \A d \in Probes \ (0..(Len(f) - 1)) :
                   displayIndexToFileIndex(p, d) = -1
        ELSE \A x \in Probes :
                /\ displayIndexToFileIndex(p, x) = x
                /\ fileIndexToDisplayIndex(p, x) = x

\* A filter of the first and the last of three files.
C19_Witness ==
    /\ Len(filesPanel.files) = MaxPanelFiles
    /\ filesPanel.filteredIdxs = Slice(<<0, MaxPanelFiles - 1>>)
    /\ fileIndexToDisplayIndex(filesPanel, MaxPanelFiles - 1) = 1

\* The position (from 1) of file index c in the list f.
PositionIn(f, c) == CHOOSE k \in 1..Len(f) : f[k] = c

\* C20: with a filter and the cursor on one of its entries, down moves to
\* the next entry and up to the previous one, and at the last (first)
\* entry the cursor stays; with no filter the cursor steps by one within
\* [0, len(files)-1] and stays at either end.
C20_InStep ==
    LET p == filesPanel
        f == p.filteredIdxs.v
        c == p.cursor
        n == Len(p.files)
    IN  call'.op = "Update"
           => /\ (IsFiltered(p) /\ c \in Range(f))
                    => LET k == PositionIn(f, c)
                       IN  filesPanel'.cursor =
                               IF call'.key = "down"
                               THEN IF k < Len(f) THEN f[k + 1] ELSE c
                               ELSE IF k > 1 THEN f[k - 1] ELSE c
              /\ (~IsFiltered(p) /\ c \in 0..(n - 1))
                    => filesPanel'.cursor =
                           IF call'.key = "down"
                           THEN IF c + 1 <= n - 1 THEN c + 1 ELSE c
                           ELSE IF c - 1 >= 0 THEN c - 1 ELSE c
              /\ filesPanel'.files = p.files
              /\ filesPanel'.filteredIdxs = p.filteredIdxs

C20_FilteredNavigation == [][C20_InStep]_vars

\* Down has just moved from the first to the last of three files, over
\* the filtered-out middle one.
C20_Witness ==
    /\ call.op = "Update" /\ call.key = "down"
    /\ Len(filesPanel.files) = MaxPanelFiles
    /\ filesPanel.filteredIdxs = Slice(<<0, MaxPanelFiles - 1>>)
    /\ filesPanel.cursor = MaxPanelFiles - 1
    /\ Len(call.cmds) = 1


-----------------------------------------------------------------------------
(* Preloading and the diff cache of the running application.               *)

\* A preload command of the application delivered in this step.
PreloadDelivered(m) ==
    /\ m.type = "preload"
    /\ BagIn(m, pending)
    /\ pending' = Take(pending, m)

\* The paths of a work list whose diff the repository loads.
Loadable(paths) == {p \in Range(paths) : ~repo.diff[p].err}

\* C21: the step that activates search starts one preload whose work list
\* is the file list's paths absent from the cache at that moment, in
\* file-list order, and none when there is no such path; the step that
\* delivers a batch caches every file of its work list that loads, with
\* its diff, and leaves out the ones that fail.
C21_InStep ==
    /\ (~searchCtrl.active /\ searchCtrl'.active)
          => LET work == SelectSeq(FilePaths(filesPanel),
                                   LAMBDA p : p \notin DOMAIN diffCache)
             IN  IF work = <<>> THEN pending' = pending
                 ELSE pending' = pending
                          (+) SetToBag({[type |-> "preload", paths |-> work]})
    /\ \A m \in BagToSet(pending) :
          PreloadDelivered(m)
             => /\ DOMAIN diffCache' = DOMAIN diffCache \cup Loadable(m.paths)
                /\ \A p \in Loadable(m.paths) :
                      diffCache'[p] = repo.diff[p].content

C21_PreloadWorkList == [][C21_InStep]_vars

\* A batch of two files was delivered during search: the first file's load
\* failed and the second one is cached without ever having been displayed.
C21_Witness ==
    /\ searchCtrl.active
    /\ Len(filesPanel.files) = MaxFiles
    /\ repo.diff[1].err /\ ~repo.diff[MaxFiles].err
    /\ DOMAIN diffCache = {MaxFiles}
    /\ diffPanel.filePath = NoPath
    /\ BagCardinality(pending) = 0


\* The 0-based indices of the files whose cached diff the matcher finds the
\* query in; a file with no cache entry is not among them.
CachedMatching(query, paths, cache) ==
    {i \in 0..(Len(paths) - 1) :
        /\ paths[i + 1] \in DOMAIN cache
        /\ cache[paths[i + 1]] # <<>>
        /\ LookPathFzf
        /\ diffContainsMatch(query, cache[paths[i + 1]])}

\* The files panel and the controller hold the filter SearchAllFiles
\* computes for the query over the paths and the cache.
FilterIsSearchOf(query, paths, cache, ctrl, panel) ==
    LET f == SearchAllFiles(ctrl, query, paths, cache).filteredIdxs
    IN  /\ panel.filteredIdxs = f
        /\ query # <<>> => Range(f.v) = CachedMatching(query, paths, cache)
        /\ query = <<>> => f = NilSlice

\* The diff panel's match list is what SearchInDiff returns for the query
\* on the lines.
MatchesAreSearchOf(query, lines, panel) ==
    \E ord \in MatchOrders(query, lines) :
        panel.searchState.matches = SearchInDiff(query, lines, ord).matches

\* C22: a key processed in search mode that changes the query leaves the
\* files panel filtered by SearchAllFiles(new query, all paths, the cache
\* as it is), so that files without a cache entry do not match, and
\* leaves the diff panel with the matches of SearchInDiff(new query, the
\* displayed lines).
C22_InStep ==
    (searchCtrl.active /\ searchCtrl'.active
        /\ searchCtrl'.query # searchCtrl.query)
       => /\ diffCache' = diffCache
          /\ diffPanel'.lines = diffPanel.lines
          /\ FilePaths(filesPanel') = FilePaths(filesPanel)
          /\ FilterIsSearchOf(searchCtrl'.query, FilePaths(filesPanel),
                              diffCache, searchCtrl, filesPanel')
          /\ searchCtrl'.filteredIdxs = filesPanel'.filteredIdxs
          /\ MatchesAreSearchOf(searchCtrl'.query, diffPanel.lines, diffPanel')

C22_EditReruns == [][C22_InStep]_vars

\* "q" is searched for while the preload is still under way: the second
\* file's diff contains "q" but is not cached, the filter holds the first
\* file only, and the displayed diff has its first line matched.
C22_Witness ==
    /\ searchCtrl.active /\ searchCtrl.query = <<"q">>
    /\ Len(filesPanel.files) = MaxFiles
    /\ ~repo.diff[MaxFiles].err
    /\ StringsContains(repo.diff[MaxFiles].content, <<"q">>)
    /\ MaxFiles \notin DOMAIN diffCache
    /\ filesPanel.filteredIdxs = Slice(<<0>>)
    /\ diffPanel.searchState.matches = Slice(<<0>>)
    /\ \E m \in BagToSet(pending) : m.type = "preload"


\* C23: a preload batch delivered while search is active with a non-empty
\* query is merged into the cache and the search is run again in the same
\* step: afterwards the filter is SearchAllFiles(query, paths, merged
\* cache), so every newly cached file that matches is in it.
C23_InStep ==
    \A m \in BagToSet(pending) :
       (PreloadDelivered(m) /\ searchCtrl.active /\ searchCtrl.query # <<>>)
          => LET query == searchCtrl.query
                 paths == FilePaths(filesPanel)
             IN  /\ DOMAIN diffCache' = DOMAIN diffCache \cup Loadable(m.paths)
                 /\ searchCtrl'.active /\ searchCtrl'.query = query
                 /\ FilterIsSearchOf(query, paths, diffCache', searchCtrl,
                                     filesPanel')
                 /\ searchCtrl'.filteredIdxs = filesPanel'.filteredIdxs
                 /\ \A i \in 0..(Len(paths) - 1) :
                       (/\ paths[i + 1] \in Loadable(m.paths) \ DOMAIN diffCache
                        /\ LookPathFzf
                        /\ StringsContains(repo.diff[paths[i + 1]].content, query))
                          => i \in Range(filesPanel'.filteredIdxs.v)

C23_BatchReruns == [][C23_InStep]_vars

\* "q" is searched for with the first file displayed, the second file is
\* cached and in the filter with the first, and no batch is in flight.
C23_Witness ==
    /\ searchCtrl.active /\ searchCtrl.query = <<"q">>
    /\ Len(filesPanel.files) = MaxFiles
    /\ filesPanel.filteredIdxs = Slice(<<0, MaxFiles - 1>>)
    /\ diffPanel.filePath = 1
    /\ MaxFiles \in DOMAIN diffCache
    /\ \A m \in BagToSet(pending) : m.type # "preload"


\* C24: a preload batch delivered after search was deactivated fills the
\* cache and runs no search: the controller stays inactive with an empty
\* query, no filter and noMatches false, the files panel stays unfiltered
\* with its cursor where it was, and the diff panel's match data stays
\* empty.
C24_InStep ==
    \A m \in BagToSet(pending) :
       (PreloadDelivered(m) /\ ~searchCtrl.active)
          => /\ DOMAIN diffCache' = DOMAIN diffCache \cup Loadable(m.paths)
             /\ \A p \in Loadable(m.paths) :
                   diffCache'[p] = repo.diff[p].content
             /\ ~searchCtrl'.active
             /\ searchCtrl'.query = <<>>
             /\ searchCtrl'.filteredIdxs = NilSlice
             /\ ~searchCtrl'.noMatches
             /\ ~IsFiltered(filesPanel')
             /\ filesPanel'.cursor = filesPanel.cursor
             /\ filesPanel' = filesPanel
             /\ ~diffPanel'.searchState.active
             /\ diffPanel'.searchState.matches = NilSlice
             /\ diffPanel'.searchState.matchSet = {}
             /\ diffPanel'.searchState.currentMatch = -1
             /\ diffPanel' = diffPanel

C24_LateBatchOnlyFillsCache == [][C24_InStep]_vars

\* Search is off, the second file is cached though the first one is
\* displayed, and no batch is in flight any more.
C24_Witness ==
    /\ ~searchCtrl.active /\ ~diffPanel.searchState.active
    /\ Len(filesPanel.files) = MaxFiles
    /\ filesPanel.cursor = 0 /\ diffPanel.filePath = 1
    /\ MaxFiles \in DOMAIN diffCache
    /\ \A m \in BagToSet(pending) : m.type # "preload"


\* The preload commands started in this step.
PreloadsStarted ==
    {m \in BagToSet(pending') :
        m.type = "preload" /\ CopiesIn(m, pending') > CopiesIn(m, pending)}

\* C25: no step removes a path from the diff cache, and the preload
\* started by an activation has no path that is already cached, so a diff
\* cached before a deactivation is not loaded again.
C25_InStep ==
    /\ DOMAIN diffCache \subseteq DOMAIN diffCache'
    /\ \A m \in PreloadsStarted :
          /\ ~searchCtrl.active /\ searchCtrl'.active
          /\ Range(m.paths) \cap DOMAIN diffCache = {}

C25_CacheOnlyGrows == [][C25_InStep]_vars

\* A second activation: the second file was cached by an earlier batch (no
\* diff was ever displayed) and the preload now in flight is for the first
\* file alone.
C25_Witness ==
    /\ searchCtrl.active
    /\ Len(filesPanel.files) = MaxFiles
    /\ diffPanel.filePath = NoPath
    /\ DOMAIN diffCache = {MaxFiles}
    /\ BagIn([type |-> "preload", paths |-> <<1>>], pending)


\* C26: while search is active the diff panel's match list is the result
\* of SearchInDiff for the controller's query on the lines of the diff on
\* display; the step that displays another file's diff during search
\* leaves the matches of the new lines, not the previous diff's.
C26_InState ==
    searchCtrl.active
       => MatchesAreSearchOf(searchCtrl.query, diffPanel.lines, diffPanel)

C26_InStep ==
    (searchCtrl.active /\ searchCtrl'.active
        /\ diffPanel'.filePath # diffPanel.filePath)
       => /\ searchCtrl'.query = searchCtrl.query
          /\ MatchesAreSearchOf(searchCtrl.query, diffPanel'.lines, diffPanel')

C26_MatchesFollowDisplay == [](C26_InState) /\ [][C26_InStep]_vars

\* "q" is searched for and the second file's diff, which has no "q", came
\* on display during the search (its preload is still in flight): the
\* first file's match on line 0 is gone.
C26_Witness ==
    /\ searchCtrl.active /\ searchCtrl.query = <<"q">> /\ LookPathFzf
    /\ Len(filesPanel.files) = MaxFiles
    /\ repo.diff[1] = DiffOk(<<"q">>)
    /\ diffPanel.filePath = MaxFiles
    /\ diffPanel.searchState.matches = NilSlice
    /\ \E m \in BagToSet(pending) :
          m.type = "preload" /\ MaxFiles \in Range(m.paths)


\* C27: the step that leaves search mode leaves the controller inactive
\* with an empty query and no result set, the files panel unfiltered
\* (Count = TotalCount), and the diff panel out of search mode with no
\* matches and no current match.
C27_InStep ==
    (searchCtrl.active /\ ~searchCtrl'.active)
       => /\ searchCtrl'.query = <<>>
          /\ searchCtrl'.input.value = <<>>
          /\ searchCtrl'.filteredIdxs = NilSlice
          /\ ~searchCtrl'.noMatches
          /\ ~IsFiltered(filesPanel')
          /\ Count(filesPanel') = TotalCount(filesPanel')
          /\ displayFiles(filesPanel') = filesPanel'.files
          /\ ~IsSearching(diffPanel')
          /\ ~HasMatches(diffPanel'.searchState)
          /\ diffPanel'.searchState.matches = NilSlice
          /\ diffPanel'.searchState.matchSet = {}
          /\ diffPanel'.searchState.currentMatch = -1
          /\ diffPanel'.searchState.input.value = <<>>

C27_DeactivateClears == [][C27_InStep]_vars

\* Search was on (the diff panel's input keeps its focus) with both files
\* listed, and it has been left.
C27_Witness ==
    /\ ~searchCtrl.active
    /\ diffPanel.searchState.input.focus
    /\ Len(filesPanel.files) = MaxFiles
    /\ diffPanel.filePath # NoPath
    /\ Count(filesPanel) = MaxFiles


-----------------------------------------------------------------------------
(* A search session of the application, observed: the application is run   *)
(* from its start by the files and diffs arriving and by the keys of the   *)
(* two modes, and the fixture records the display search was activated on  *)
(* and whether a file was navigated to, or a diff came on display, while   *)
(* search was on.                                                          *)

\* What the two panels show: the file under the cursor, the diff on
\* display and the line under the diff cursor.
Display(a) ==
    [cursor |-> a.filesPanel.cursor, filePath |-> a.diffPanel.filePath,
     lines |-> a.diffPanel.lines, cursorLine |-> a.diffPanel.cursorLine]

NoSession == [phase |-> "none", pre |-> Display(NewApp), disturbed |-> FALSE]

SessionInit ==
    /\ fzfInstalled \in BOOLEAN
    /\ repo \in {r \in Repos : ~r.err /\ Len(r.files) > 0}
    /\ searchCtrl = NewApp.searchCtrl
    /\ filesPanel = NewApp.filesPanel
    /\ diffPanel = NewApp.diffPanel
    /\ diffCache = NewApp.diffCache
    /\ modalOpen = NewApp.modalOpen
    /\ pending = SetToBag({[type |-> "loadFiles"]})
    /\ running = TRUE
    /\ fixture = NoSession
    /\ call = [op |-> "NewApp"]


\* One Update step of the session, leaving the record fx.
SessionStep(r, consumed, fx) ==
    LET left == IF consumed = <<>> THEN pending ELSE Take(pending, consumed[1])
    IN  /\ BagCardinality(left) + Len(InFlight(r.cmds)) <= MaxPending
        /\ r.app.diffPanel.cursorLine <= MaxCursorLine
        /\ SetApp(r.app)
        /\ pending' = AddCmds(left, InFlight(r.cmds))
        /\ fixture' = fx
        /\ UNCHANGED <<fzfInstalled, repo, running, call>>

\* The record after an event that is no part of a session: the display
\* left by a deactivation is observed once.
Observed == IF fixture.phase = "off" THEN NoSession ELSE fixture

\* The record after a file was navigated to, or a diff came on display.
Disturbed ==
    IF fixture.phase = "on" THEN [fixture EXCEPT !.disturbed = TRUE]
    ELSE Observed

SessionFilesLoaded ==
    /\ \E m \in BagToSet(pending) :
          /\ m.type = "loadFiles"
          /\ SessionStep(onFilesLoaded(App, repo.files), <<m>>, Observed)

SessionDiffLoaded ==
    /\ \E m \in BagToSet(pending) :
          /\ m.type = "loadDiff"
          /\ LET d == repo.diff[m.path]
             IN  IF d.err
                 THEN SessionStep([app |-> App, cmds |-> <<>>], <<m>>, Observed)
                 ELSE \E ord \in MatchOrders(
                              IF searchCtrl.active THEN searchCtrl.query ELSE <<>>,
                              StringsSplit(d.content)) :
                         SessionStep(
                             [app |-> onDiffLoaded(App, m.path, d.content, ord),
                              cmds |-> <<>>], <<m>>, Disturbed)

SessionBatch ==
    /\ \E m \in BagToSet(pending) :
          /\ m.type = "preload"
          /\ \E ord \in MatchOrders(searchCtrl.query, diffPanel.lines) :
                SessionStep([app |-> onDiffsPreloadedBatch(
                                         App, PreloadResults(m.paths, repo), ord),
                             cmds |-> <<>>], <<m>>, Observed)

\* Normal mode: the keys that move the two cursors.
SessionMove ==
    /\ ~searchCtrl.active
    /\ \E key \in {"up", "down", "ctrl+n", "ctrl+p"} :
          SessionStep(handleGlobalKey(App, key), <<>>, Observed)

\* "/" in normal mode: the display search starts from is recorded.
SessionActivate ==
    /\ ~searchCtrl.active
    /\ SessionStep(handleGlobalKey(App, "/"), <<>>,
                   [phase |-> "on", pre |-> Display(App), disturbed |-> FALSE])

\* A rune or backspace in search mode.
SessionEdit ==
    /\ searchCtrl.active
    /\ \E key \in Runes \cup {"backspace"} :
          /\ key \in Runes => Len(searchCtrl.input.value) < AppMaxQueryLen
          /\ \E ord \in MatchOrders(QueryAfterKey(App, key), diffPanel.lines) :
                SessionStep(handleSearchInput(App, key, ord), <<>>, fixture)

\* enter in search mode
SessionCycle ==
    /\ searchCtrl.active
    /\ SessionStep(handleSearchInput(App, "enter", <<>>), <<>>, fixture)

\* up or down in search mode
SessionNavigate ==
    /\ searchCtrl.active
    /\ \E key \in {"up", "down"} :
          SessionStep(handleSearchInput(App, key, <<>>), <<>>, Disturbed)

\* esc in search mode
SessionDeactivate ==
    /\ searchCtrl.active
    /\ SessionStep(handleSearchInput(App, "esc", <<>>), <<>>,
                   [fixture EXCEPT !.phase = "off"])

SessionNext ==
    \/ SessionFilesLoaded
    \/ SessionDiffLoaded
    \/ SessionBatch
    \/ SessionMove
    \/ SessionActivate
    \/ SessionEdit
    \/ SessionCycle
    \/ SessionNavigate
    \/ SessionDeactivate

SpecSession == SessionInit /\ [][SessionNext]_vars

\* C28: a search session of query edits and match cycling, with no file
\* navigated to and no diff coming on display meanwhile, ends with the
\* file cursor, the displayed diff and the diff line cursor as they were
\* just before search was activated.
C28_DisplayRestored ==
    (fixture.phase = "off" /\ ~fixture.disturbed)
       => Display(App) = fixture.pre


-----------------------------------------------------------------------------
(* The current match and the line cursor of the diff panel.                *)

\* C29: in every state the diff panel's operations reach, the current
\* match index is -1 exactly when there are no matches and is otherwise
\* an index of the match list; and SetSearchMatches or CycleNextMatch
\* ending with matches leaves the line cursor on matches[current match].
C29_InState ==
    LET s == diffPanel.searchState
    IN  /\ (s.currentMatch = -1) <=> (Len(s.matches.v) = 0)
        /\ Len(s.matches.v) > 0
              => 0 <= s.currentMatch /\ s.currentMatch < Len(s.matches.v)

C29_InStep ==
    LET s == diffPanel'.searchState
    IN  (call'.op \in {"SetSearchMatches", "CycleNextMatch"}
            /\ Len(s.matches.v) > 0)
           => /\ diffPanel'.cursorLine = s.matches.v[s.currentMatch + 1]
              /\ diffPanel'.cursorLine = CurrentMatchLine(s)

C29_CurrentMatchInRange == [](C29_InState) /\ [][C29_InStep]_vars

\* CycleNextMatch has just wrapped from the last of three matches to the
\* first, and the line cursor is on it.
C29_Witness ==
    /\ call.op = "CycleNextMatch" /\ call.pre.cursorMoved
    /\ Len(diffPanel.searchState.matches.v) = MaxMatches
    /\ diffPanel.searchState.currentMatch = 0
    /\ diffPanel.cursorLine = diffPanel.searchState.matches.v[1]


\* C30: once a diff has been set, the line cursor of the diff panel is the
\* index of one of the displayed lines, whatever the application has
\* processed since.
C30_CursorOnALine ==
    diffPanel.filePath # NoPath
       => 0 <= diffPanel.cursorLine /\ diffPanel.cursorLine < Len(diffPanel.lines)


-----------------------------------------------------------------------------
(* The three components of the running application taken together.         *)

\* C31: the controller is Inactive or Active and nothing else: in every
\* reachable state where it is inactive its query is empty, its filter is
\* absent and noMatches is false, so that a query, a filter or noMatches
\* are found only while it is active.
C31_InactiveIsBlank ==
    ~searchCtrl.active
       => /\ searchCtrl.query = <<>>
          /\ searchCtrl.input.value = <<>>
          /\ searchCtrl.filteredIdxs = NilSlice
          /\ ~searchCtrl.noMatches

\* Search has been left (the diff panel's input keeps the focus search
\* gave it) after diffs were cached, and a preload is still in flight.
C31_Witness ==
    /\ ~searchCtrl.active
    /\ diffPanel.searchState.input.focus
    /\ DOMAIN diffCache # {}
    /\ \E m \in BagToSet(pending) : m.type = "preload"


\* No single-file diff load is in flight.
NoLoadPending(bag) == \A m \in BagToSet(bag) : m.type # "loadDiff"

\* The diff on display is the diff of the file under the file cursor.
ShowsSelected(fp, dp) ==
    HasSelectedFile(fp) /\ dp.filePath = SelectedFile(fp).Path

\* The search run in this step installs a filter without the file the
\* cursor was on, and the cursor leaves that file.
CursorSnapped ==
    /\ searchCtrl.active /\ searchCtrl'.active
    /\ IsFiltered(filesPanel')
    /\ filesPanel.cursor \notin Range(filesPanel'.filteredIdxs.v)
    /\ filesPanel'.cursor # filesPanel.cursor

\* C32: when a search moves the file cursor to the first entry of a new
\* filter, the diff view follows: with the selected file's diff on display
\* before, and no diff load in flight after, the diff on display after is
\* that of the file the cursor is now on.
C32_InStep ==
    (CursorSnapped /\ ShowsSelected(filesPanel, diffPanel)
        /\ NoLoadPending(pending'))
       => ShowsSelected(filesPanel', diffPanel')

C32_SnapSwitchesDiff == [][C32_InStep]_vars


\* Search mode was never entered: ActivateSearch focuses the diff panel's
\* search input and nothing takes the focus away again.
NeverSearched == ~diffPanel.searchState.input.focus

\* Every changed file's diff loads.
AllDiffsLoad == \A i \in 1..Len(repo.files) : ~repo.diff[i].err

\* C33: files are selected one after the other with up and down, also
\* before an earlier selection's diff has arrived; once every load has
\* been processed, the diff on display is that of the file the cursor is
\* on, in whatever order the loads finished.
C33_LastSelectedShown ==
    (NeverSearched /\ AllDiffsLoad /\ HasSelectedFile(filesPanel)
        /\ NoLoadPending(pending))
       => ShowsSelected(filesPanel, diffPanel)


\* C34: while search is active with a non-empty query, the files panel's
\* filter and the controller's noMatches flag are what SearchAllFiles
\* produces for the query, the file paths and the cache as it now is,
\* also after a single file's diff load has added an entry to the cache.
C34_FilterFollowsCache ==
    (searchCtrl.active /\ searchCtrl.query # <<>>)
       => LET r == SearchAllFiles(searchCtrl, searchCtrl.query,
                                  FilePaths(filesPanel), diffCache)
          IN  /\ filesPanel.filteredIdxs = r.filteredIdxs
              /\ searchCtrl.noMatches = r.noMatches


\* File i of the repository has a diff that loads and that the matcher
\* finds the query in.
CanMatch(i, query) ==
    /\ LookPathFzf
    /\ ~repo.err /\ i <= Len(repo.files)
    /\ ~repo.diff[i].err
    /\ repo.diff[i].content # <<>>
    /\ diffContainsMatch(query, repo.diff[i].content)

\* Search is active on the query with no command in flight: every load
\* and every preload has ended and has been processed.
Settled(query) ==
    /\ running /\ searchCtrl.active /\ searchCtrl.query = query
    /\ BagCardinality(pending) = 0

\* While search stays active on the same query the files panel's filter is
\* changed by a preload batch only.
FilterKeptWhileQueryStays ==
    (searchCtrl.active /\ searchCtrl'.active
        /\ searchCtrl'.query = searchCtrl.query
        /\ filesPanel'.files = filesPanel.files
        /\ filesPanel'.filteredIdxs # filesPanel.filteredIdxs)
       => \E m \in BagToSet(pending) : PreloadDelivered(m)

\* C35: with search active on "q", every file whose diff loads and matches
\* "q" comes to be in the files panel's filter: once every command has
\* ended, so that nothing but a key can follow, such a file is in the
\* filter, however the loads, the activation, the edits and the preload
\* were interleaved.
C35_MatchingFileListed ==
    \A i \in 1..MaxFiles :
       (Settled(<<"q">>) /\ CanMatch(i, <<"q">>))
          => /\ IsFiltered(filesPanel)
             /\ (i - 1) \in Range(filesPanel.filteredIdxs.v)


\* C36: a preload batch processed while search is active leaves the diff
\* panel's current match and line cursor where they were: the k-th match
\* stays current.
C36_InStep ==
    \A m \in BagToSet(pending) :
       (PreloadDelivered(m) /\ searchCtrl.active)
          => /\ diffPanel'.searchState.currentMatch
                    = diffPanel.searchState.currentMatch
             /\ diffPanel'.cursorLine = diffPanel.cursorLine

C36_BatchKeepsCurrentMatch == [][C36_InStep]_vars


\* C37: in every reachable state the files panel's filter is the
\* controller's result set: both absent, or both the same list of indices.
C37_FiltersAgree ==
    /\ filesPanel.filteredIdxs.nil = searchCtrl.filteredIdxs.nil
    /\ filesPanel.filteredIdxs.v = searchCtrl.filteredIdxs.v
    /\ IsFiltered(filesPanel) <=> ~searchCtrl.filteredIdxs.nil

\* A search has left the second file alone in both, with the cursor on it.
C37_Witness ==
    /\ searchCtrl.active /\ searchCtrl.query # <<>>
    /\ Len(filesPanel.files) = MaxFiles
    /\ searchCtrl.filteredIdxs = Slice(<<MaxFiles - 1>>)
    /\ filesPanel.filteredIdxs = Slice(<<MaxFiles - 1>>)
    /\ filesPanel.cursor = MaxFiles - 1


\* C38: in every reachable state with files listed the file cursor is the
\* index of a file, and with a filter present it is one of the filter's
\* entries, so that the selected file is one of the files shown.
C38_CursorOnVisibleFile ==
    Len(filesPanel.files) > 0
       => /\ 0 <= filesPanel.cursor
          /\ filesPanel.cursor < Len(filesPanel.files)
          /\ IsFiltered(filesPanel)
                => filesPanel.cursor \in Range(filesPanel.filteredIdxs.v)
          /\ HasSelectedFile(filesPanel)
          /\ \E k \in 1..Len(displayFiles(filesPanel)) :
                displayFiles(filesPanel)[k] = SelectedFile(filesPanel)

\* Both files are in the filter and the cursor has been moved to the
\* second one.
C38_Witness ==
    /\ searchCtrl.active
    /\ filesPanel.filteredIdxs = Slice(<<0, 1>>)
    /\ filesPanel.cursor = 1
    /\ NoLoadPending(pending)


\* C39: the controller is active exactly when the diff panel is in search
\* mode, in every reachable state; a step changes both or neither, and
\* the step that changes them is a key in normal mode with no modal open
\* (activation) or a key in search mode (deactivation).
C39_InState == searchCtrl.active <=> IsSearching(diffPanel)

C39_InStep ==
    /\ (searchCtrl'.active # searchCtrl.active)
          <=> (IsSearching(diffPanel') # IsSearching(diffPanel))
    /\ (searchCtrl'.active # searchCtrl.active)
          => /\ running /\ ~modalOpen
             /\ diffCache' = diffCache
             /\ filesPanel'.files = filesPanel.files
             /\ diffPanel'.lines = diffPanel.lines

C39_ModesSwitchTogether == [](C39_InState) /\ [][C39_InStep]_vars

\* Both are in search mode on a displayed diff with a query typed.
C39_Witness ==
    /\ searchCtrl.active /\ IsSearching(diffPanel)
    /\ searchCtrl.query # <<>>
    /\ diffPanel.filePath # NoPath
    /\ diffPanel.searchState.input.value = searchCtrl.query


\* C40: the feedback modal and search mode are never active together.
\* While the modal is open no step changes the search controller; while
\* search is active no step opens the modal or quits the program, so
\* enter only cycles the matches and "q" only edits the query.
C40_InState == ~(modalOpen /\ searchCtrl.active)

C40_InStep ==
    /\ modalOpen => searchCtrl' = searchCtrl
    /\ searchCtrl.active => running' /\ ~modalOpen'

C40_ModalExcludesSearch == [](C40_InState) /\ [][C40_InStep]_vars

\* Search mode on a displayed diff after enter cycled to the second
\* match: the program runs and no modal is open.
C40_Witness ==
    /\ searchCtrl.active /\ running /\ ~modalOpen
    /\ searchCtrl.query # <<>>
    /\ diffPanel.filePath # NoPath
    /\ diffPanel.searchState.currentMatch = 1


====
